---- MODULE Spec2Model ----
(***************************************************************************)
(* Model of strimzi-backup: the gzip member archive written by the         *)
(* backuper and read by the restorer, the backup run of cmd/backup_kafka,  *)
(* and the restore state machine of pkg/restorer with the watch-based      *)
(* waits of pkg/utils.                                                     *)
(*                                                                         *)
(*   Spec        - a restore run (NewKafkaRestorer, RestoreKafka) against  *)
(*                 an API server, the cluster operator and a watch         *)
(*   SpecBackup  - a backup run (NewKafkaBackuper, Backup*, Close)         *)
(*   SpecArchive - members written by the gzip writer and read back by     *)
(*                 the read loop of RestoreKafka                           *)
(***************************************************************************)
EXTENDS Integers, Sequences, FiniteSets, TLC

\* ------------------------------------------------------------------------
\* Bounds
\* ------------------------------------------------------------------------
\* longest archive (in members) drawn freely from the member names
MaxMembers == 2
\* most items in a resource list of the archive
MaxItems == 2
\* longest payload (in bytes) of a member in SpecArchive
MaxPayload == 2
\* most members written in SpecArchive
MaxWritten == 3
\* longest --timeout of a restore run in SpecTimed, in ticks of the clock
MaxTimeout == 2
\* most calls of cleanseMetadata on one resource in SpecCleanse
MaxApplied == 2

\* ------------------------------------------------------------------------
\* Member names
\* ------------------------------------------------------------------------
KafkaFilename == "kafka.yaml"
KafkaNodePoolsFilename == "pools.yaml"
CaSecretsFilename == "ca-secrets.yaml"
KafkaTopicsFilename == "topics.yaml"
KafkaUsersFilename == "users.yaml"
KafkaUserSecretsFilename == "user-secrets.yaml"
\* a member name outside the dispatch table
UnknownFilename == "extra.yaml"

ListFilenames ==
  {KafkaNodePoolsFilename, CaSecretsFilename, KafkaTopicsFilename,
   KafkaUsersFilename, KafkaUserSecretsFilename}

KnownFilenames == {KafkaFilename} \cup ListFilenames

\* the order in which cmd/backup_kafka runs the backup steps
CanonicalOrder ==
  <<KafkaFilename, KafkaNodePoolsFilename, CaSecretsFilename,
    KafkaTopicsFilename, KafkaUsersFilename, KafkaUserSecretsFilename>>

\* the resource kind each list member holds
KindOf(fname) ==
  CASE fname = KafkaFilename -> "Kafka"
    [] fname = KafkaNodePoolsFilename -> "KafkaNodePool"
    [] fname = KafkaTopicsFilename -> "KafkaTopic"
    [] fname = KafkaUsersFilename -> "KafkaUser"
    [] fname = CaSecretsFilename -> "Secret"
    [] fname = KafkaUserSecretsFilename -> "Secret"
    [] OTHER -> "Other"

\* ------------------------------------------------------------------------
\* Resources
\* ------------------------------------------------------------------------
\* the cluster the backup was taken from, and the restore target
SourceName == "src"
SourceNamespace == "src-ns"
TargetName == "tgt"
TargetNamespace == "tgt-ns"

\* A resource as it is serialised: the metadata fields the program touches
\* and, for the Kafka resource, the cluster ID of its status.
\*   cluster: value of the strimzi.io/cluster label ("none": not set; no
\*            labels at all when app is not set either)
\*   app:     value of another label ("absent": not set)
\*   pause:   value of strimzi.io/pause-reconciliation ("absent": not set)
\*   lastApplied: value of kubectl.kubernetes.io/last-applied-configuration
\*            ("absent": not set, "": set to the empty string)
\*   note:    value of another annotation ("absent": not set)
Resource(kind, name, pause, clusterId) ==
  [kind |-> kind, name |-> name, namespace |-> SourceNamespace,
   cluster |-> IF kind = "Kafka" THEN "none" ELSE SourceName,
   app |-> "absent", pause |-> pause, lastApplied |-> "cfg",
   note |-> "absent", managedFields |-> TRUE,
   ownerReferences |-> (kind = "Secret"), resourceVersion |-> "rv-src",
   uid |-> "uid-src", generation |-> 1, creationTimestamp |-> "t-src",
   deletionTimestamp |-> "absent", clusterId |-> clusterId]

NoResource == Resource("None", <<"none", 0>>, "absent", "")

\* cleanseMetadata with the assignments it has commented out in force: the
\* resource version and the UID are cleared too
CleanseMetadata_ClearAll(m) ==
  [m EXCEPT !.managedFields = FALSE,
            !.ownerReferences = FALSE,
            !.resourceVersion = "",
            !.uid = "",
            !.lastApplied = IF @ = "" THEN "" ELSE "absent"]

\* cleanseMetadata: managed fields and owner references are set to nil; the
\* last-applied-configuration annotation is deleted when the lookup of its
\* value does not give the empty string; nothing else is touched.
CleanseMetadata(m) ==
  [m EXCEPT !.managedFields = FALSE,
            !.ownerReferences = FALSE,
            !.lastApplied = IF @ = "" THEN "" ELSE "absent"]

\* updateNamespaceAndClusterName setting the label only in a label map
\* that exists
updateNamespaceAndClusterName_ExistingLabels(metadata) ==
  [metadata EXCEPT !.namespace = TargetNamespace,
                   !.cluster = IF metadata.cluster = "none"
                                  /\ metadata.app = "absent"
                               THEN "none" ELSE TargetName]

\* updateNamespaceAndClusterName
updateNamespaceAndClusterName(metadata) ==
  [metadata EXCEPT !.namespace = TargetNamespace,
                   !.cluster = TargetName]

\* ------------------------------------------------------------------------
\* The gzip member stream.  A file is a sequence of tokens: each member is
\* a header (carrying Name), the compressed data and a trailer (carrying
\* the size of the data).
\* ------------------------------------------------------------------------
Hdr(name) == [t |-> "hdr", name |-> name, data |-> <<>>, n |-> 0]
Dat(p) == [t |-> "dat", name |-> "", data |-> p, n |-> 0]
Trl(n) == [t |-> "trl", name |-> "", data |-> <<>>, n |-> n]

\* one complete member, as Reset / Name / Write / Close emit it
EncodeMember(name, payload) ==
  <<Hdr(name), Dat(payload), Trl(Len(payload))>>

RECURSIVE EncodeArchive(_)
EncodeArchive(ms) ==
  IF ms = <<>> THEN <<>>
  ELSE EncodeMember(ms[1].name, ms[1].payload) \o EncodeArchive(Tail(ms))

\* gzip.Reader.Read until it reports EOF, as io.ReadAll drives it.  In
\* single-stream mode the read stops after the member's trailer; in
\* multistream mode it goes on into the next member (dropping its header)
\* and stops only at the end of the file.
RECURSIVE GzipReadAll(_, _, _, _, _)
GzipReadAll(f, pos, acc, msize, multistream) ==
  IF pos > Len(f) THEN [ok |-> FALSE, data |-> acc, pos |-> pos]
  ELSE
    LET tok == f[pos] IN
    CASE tok.t = "dat" ->
           GzipReadAll(f, pos + 1, acc \o tok.data, msize + Len(tok.data),
                       multistream)
      [] tok.t = "trl" ->
           IF tok.n # msize THEN [ok |-> FALSE, data |-> acc, pos |-> pos]
           ELSE IF (~multistream) \/ pos + 1 > Len(f)
             THEN [ok |-> TRUE, data |-> acc, pos |-> pos + 1]
           ELSE IF f[pos + 1].t = "hdr"
             THEN GzipReadAll(f, pos + 2, acc, 0, multistream)
           ELSE [ok |-> FALSE, data |-> acc, pos |-> pos + 1]
      [] OTHER -> [ok |-> FALSE, data |-> acc, pos |-> pos]

\* io.ReadAll on a reader left in multistream mode
ReadAll_Multistream(f, pos) == GzipReadAll(f, pos, <<>>, 0, TRUE)

\* gzip.Reader.Multistream(false) followed by io.ReadAll
ReadAllSingleStream(f, pos) == GzipReadAll(f, pos, <<>>, 0, FALSE)

\* gzip.NewReader / gzip.Reader.Reset: parse the next header.
\*   res = "ok": header read, Name set; "eof": nothing left; "err": garbage
GzipReadHeader(f, pos) ==
  IF pos > Len(f) THEN [res |-> "eof", name |-> "", pos |-> pos]
  ELSE IF f[pos].t = "hdr"
    THEN [res |-> "ok", name |-> f[pos].name, pos |-> pos + 1]
  ELSE [res |-> "err", name |-> "", pos |-> pos]


\* ------------------------------------------------------------------------
\* State
\* ------------------------------------------------------------------------
VARIABLES
  backupFile,      \* content of the archive file, a sequence of tokens
  fileExists,      \* whether a file exists at the archive path
  cfg,             \* command-line flags of the run
  \* --- restore
  rpc,             \* position of the restore run
  outcome,         \* "running", "Completed", "Aborted", "Crashed", "InitFailed"
  rerr,            \* the error RestoreKafka returned ("none" if none)
  gzipReader,      \* Restorer.gzipReader: position in the file, Name
  resources,       \* payload of the member being restored
  idx,             \* next element of the member's list
  memberNo,        \* members read so far
  kafka,           \* restoreKafka: the unmarshalled Kafka resource
  pausedKafka,     \* restoreKafka: the Kafka the paused wait returned
  fetched,         \* unpauseKafkaClusterAndWaitForReadiness: the Get result
  srvKafka,        \* API server: the Kafka resource of the target
  srvItems,        \* API server: dependents present in the target
  watch,           \* the watch of the wait in progress
  hist,            \* API calls and observations of the run, in order
  \* --- backup
  bpc,             \* position of the backup run
  bresult,         \* "running", "ok", "failed", "initFailed"
  berr,            \* what made the backup run fail ("none" if nothing)
  gzipWriter,      \* Backuper.gzipWriter
  bufferedWriter,  \* Backuper.bufferedWriter: bytes not yet in the file
  \* --- archive round trip
  apc,             \* position of the write/read-back run
  toWrite,         \* members still to be written
  written,         \* members written
  readBack,        \* members read back
  \* --- export
  epc,             \* position of the export run
  eresult,         \* "running", "ok", "failed", "initFailed"
  exportFiles,     \* the files of the target directory, by name
  \* --- metadata cleansing
  original,        \* the metadata of a resource as it was fetched
  metadata,        \* the metadata after the calls of cleanseMetadata so far
  applied          \* how many times cleanseMetadata was called on it

restoreVars ==
  <<rpc, outcome, rerr, gzipReader, resources, idx, memberNo, kafka,
    pausedKafka, fetched, srvKafka, srvItems, watch, hist>>
backupVars == <<bpc, bresult, berr, gzipWriter, bufferedWriter>>
archiveVars == <<apc, toWrite, written, readBack>>
fileVars == <<backupFile, fileExists>>
exportVars == <<epc, eresult, exportFiles>>
cleanseVars == <<original, metadata, applied>>
vars ==
  <<fileVars, cfg, restoreVars, backupVars, archiveVars, exportVars,
    cleanseVars>>

\* ------------------------------------------------------------------------
\* The Kafka resource on the API server, and the operator's conditions
\* ------------------------------------------------------------------------
\*   conds: the condition types of status.conditions whose status is True
ServerKafka(pause, conds, gen, obsGen, clusterId, rv) ==
  [exists |-> TRUE, pause |-> pause, conds |-> conds, generation |-> gen,
   observedGeneration |-> obsGen, clusterId |-> clusterId, rv |-> rv]

NoKafka ==
  [exists |-> FALSE, pause |-> "absent", conds |-> {}, generation |-> 0,
   observedGeneration |-> 0, clusterId |-> "", rv |-> 0]

\* isReady
IsReady(k) ==
  /\ k.conds # {}
  /\ \E condition \in k.conds :
        /\ condition = "Ready"
        /\ k.observedGeneration = k.generation

\* isReconciliationPaused
IsReconciliationPaused(k) ==
  /\ k.conds # {}
  /\ \E condition \in k.conds : condition = "ReconciliationPaused"

\* ------------------------------------------------------------------------
\* Command-line flags
\* ------------------------------------------------------------------------
\* the flags the program reads or the README documents, at their defaults
\* (timeout: the --timeout of restore, in ticks of the clock; a tick is the
\* default timeout)
NoFlags ==
  [name |-> "", skipMetadataCleansing |-> FALSE, skipCaSecrets |-> FALSE,
   skipUserSecrets |-> FALSE, skipClusterId |-> FALSE, timeout |-> 1]

\* the skip flags declared on the restore command: none given, or one of them
RestoreSkipFlags ==
  {f \in [skipCaSecrets : BOOLEAN, skipUserSecrets : BOOLEAN,
          skipClusterId : BOOLEAN] :
     Cardinality({k \in DOMAIN f : f[k]}) <= 1}

\* the flags declared on the backup command (persistent flags of backupCmd)
BackupFlags == {"kubeconfig", "namespace", "name", "filename",
                "skip-metadata-cleansing"}

\* the skip flags the README lists for the backup command
BackupSkipFlags == {"skip-ca-secrets", "skip-user-secrets"}

\* ------------------------------------------------------------------------
\* Inputs of a restore run
\* ------------------------------------------------------------------------
ClusterIds == {"", "abc-123"}

ArchivedKafka(clusterId) ==
  Resource("Kafka", <<SourceName, 0>>, "absent", clusterId)

ArchivedItem(fname, i) == Resource(KindOf(fname), <<fname, i>>, "absent", "")

\* payload of the member fname in an archive whose lists have n items
PayloadOf(fname, n, clusterId) ==
  IF fname = KafkaFilename THEN <<ArchivedKafka(clusterId)>>
  ELSE [i \in 1..n |-> ArchivedItem(fname, i)]

MemberNames == KnownFilenames \cup {UnknownFilename}

\* the sequence s with x inserted before position k
InsertAt(s, k, x) == SubSeq(s, 1, k - 1) \o <<x>> \o SubSeq(s, k, Len(s))

\* the canonical archive with a foreign member at any position
ForeignMemberShapes ==
  {InsertAt(CanonicalOrder, k, UnknownFilename) :
     k \in 1..(Len(CanonicalOrder) + 1)}

\* the canonical archive, the canonical archive with a foreign member, every
\* archive of at most MaxMembers members in any order, and the empty file
ArchiveShapes ==
  {CanonicalOrder, <<>>} \cup ForeignMemberShapes \cup
  UNION {[1..k -> MemberNames] : k \in 1..MaxMembers}

ArchiveOf(shape, n, clusterId) ==
  EncodeArchive([i \in 1..Len(shape) |->
                   [name |-> shape[i],
                    payload |-> PayloadOf(shape[i], n, clusterId)]])

\* what the target namespace may hold under the target name before the run
PreExisting ==
  {NoKafka,
   ServerKafka("true", {"ReconciliationPaused"}, 2, 2, "old-id", 5),
   ServerKafka("absent", {"Ready"}, 2, 2, "old-id", 5),
   ServerKafka("absent", {"Ready"}, 2, 1, "old-id", 5),
   ServerKafka("false", {"NotReady"}, 2, 2, "old-id", 5),
   ServerKafka("true", {"ReconciliationPaused", "Ready"}, 2, 2, "old-id", 5)}

\*   now: the clock, in ticks; deadline: when the wait's context is done
NoWatch == [open |-> FALSE, pred |-> "none", events |-> <<>>,
            closed |-> FALSE, done |-> FALSE, now |-> 0, deadline |-> 0]

\* one entry of hist
Entry(op, kind, ok, obj, srv) ==
  [op |-> op, kind |-> kind, ok |-> ok, obj |-> obj, srv |-> srv,
   m |-> memberNo]

\* gzip.NewWriter / gzip.Writer.Reset: nothing written, no header fields
NewGzipWriter ==
  [Name |-> "", wroteHeader |-> FALSE, closed |-> FALSE, err |-> FALSE,
   size |-> 0]

\* bufio.NewWriter: an empty buffer, no error
NewBufferedWriter == [buf |-> <<>>, err |-> FALSE]

BackupIdle ==
  /\ bpc = "idle" /\ bresult = "idle" /\ berr = "none"
  /\ gzipWriter = NewGzipWriter
  /\ bufferedWriter = NewBufferedWriter

ArchiveIdle ==
  /\ apc = "idle" /\ toWrite = <<>> /\ written = <<>> /\ readBack = <<>>

\* the names a file of the target directory can have
ExportNames == {KafkaFilename, KafkaNodePoolsFilename}

\* no file of that name in the target directory
NoFile == [exists |-> FALSE, content |-> <<>>, open |-> FALSE]

ExportIdle ==
  /\ epc = "idle" /\ eresult = "idle"
  /\ exportFiles = [n \in ExportNames |-> NoFile]

CleanseIdle ==
  /\ original = NoResource /\ metadata = NoResource /\ applied = 0

RestoreIdle ==
  /\ rpc = "idle" /\ outcome = "idle" /\ rerr = "none"
  /\ gzipReader = [pos |-> 1, Name |-> "", multistream |-> TRUE]
  /\ resources = <<>> /\ idx = 1 /\ memberNo = 0
  /\ kafka = NoResource /\ pausedKafka = NoKafka /\ fetched = NoKafka
  /\ srvKafka = NoKafka /\ srvItems = {} /\ watch = NoWatch /\ hist = <<>>

Init ==
  /\ \E shape \in ArchiveShapes, n \in 0..MaxItems, clusterId \in ClusterIds :
        backupFile = ArchiveOf(shape, n, clusterId)
  /\ fileExists = TRUE
  /\ cfg = NoFlags
  /\ rpc = "new" /\ outcome = "running" /\ rerr = "none"
  /\ gzipReader = [pos |-> 1, Name |-> "", multistream |-> TRUE]
  /\ resources = <<>> /\ idx = 1 /\ memberNo = 0
  /\ kafka = NoResource /\ pausedKafka = NoKafka /\ fetched = NoKafka
  /\ srvKafka \in PreExisting
  /\ srvItems = {} /\ watch = NoWatch /\ hist = <<>>
  /\ BackupIdle /\ ArchiveIdle /\ ExportIdle /\ CleanseIdle


\* ------------------------------------------------------------------------
\* Restore: helpers
\* ------------------------------------------------------------------------
Log(e) == hist' = Append(hist, e)

\* RestoreKafka recording err but still going on to unpause the cluster
Abort_ThenUnpause(err) ==
  /\ rpc' = IF rpc = "unpause" THEN "exit" ELSE "unpause"
  /\ outcome' = "Aborted" /\ rerr' = err

\* RestoreKafka returns err
Abort(err) ==
  /\ rpc' = "exit" /\ outcome' = "Aborted" /\ rerr' = err

\* a panic unwinds RestoreKafka
Panic ==
  /\ rpc' = "exit" /\ outcome' = "Crashed" /\ rerr' = "none"

\* a change of the Kafka resource reaches an open watch as an event
Emit(w, obj) ==
  IF w.open /\ ~w.closed THEN [w EXCEPT !.events = Append(@, obj)] ELSE w

\* the handler a member name selects in the switch of RestoreKafka
HandlerOf(fname) ==
  CASE fname = KafkaFilename -> "restoreKafka"
    [] fname = CaSecretsFilename -> "restoreSecrets"
    [] fname = KafkaNodePoolsFilename -> "restoreKafkaNodePools"
    [] fname = KafkaUsersFilename -> "restoreKafkaUsers"
    [] fname = KafkaTopicsFilename -> "restoreKafkaTopics"
    [] fname = KafkaUserSecretsFilename -> "restoreSecrets"
    [] OTHER -> "unknown"

\* ------------------------------------------------------------------------
\* Restore: NewRestorer / NewKafkaRestorer
\* ------------------------------------------------------------------------
NewKafkaRestorer ==
  /\ rpc = "new"
  /\ \E name \in {"", TargetName}, env \in {"ok", "clients", "open"},
        skip \in RestoreSkipFlags :
       /\ cfg' = [cfg EXCEPT !.name = name,
                             !.skipCaSecrets = skip.skipCaSecrets,
                             !.skipUserSecrets = skip.skipUserSecrets,
                             !.skipClusterId = skip.skipClusterId]
       /\ LET h == GzipReadHeader(backupFile, 1) IN
          IF name = "" \/ env # "ok" \/ h.res # "ok"
          THEN /\ rpc' = "exit" /\ outcome' = "InitFailed"
               /\ rerr' = IF name = "" THEN "name"
                          ELSE IF env # "ok" THEN env ELSE "gzip"
               /\ UNCHANGED gzipReader
          ELSE /\ rpc' = "read"
               /\ gzipReader' = [pos |-> h.pos, Name |-> h.name,
                                 multistream |-> TRUE]
               /\ UNCHANGED <<outcome, rerr>>
  /\ UNCHANGED <<fileVars, resources, idx, memberNo, kafka, pausedKafka,
                 fetched, srvKafka, srvItems, watch, hist, backupVars,
                 archiveVars, exportVars, cleanseVars>>

\* ------------------------------------------------------------------------
\* Restore: the dispatch loop of RestoreKafka
\* ------------------------------------------------------------------------
\* RestoreKafka with a default case that skips the member instead of
\* returning an error
RestoreKafka_SkipUnknown ==
  /\ rpc = "read"
  /\ LET rd == ReadAllSingleStream(backupFile, gzipReader.pos)
         h == HandlerOf(gzipReader.Name)
     IN
     /\ rd.ok
     /\ gzipReader' = [gzipReader EXCEPT !.pos = rd.pos,
                                         !.multistream = FALSE]
     /\ resources' = rd.data
     /\ memberNo' = memberNo + 1
     /\ idx' = 1
     /\ rpc' = IF h = "unknown" THEN "reset" ELSE h
     /\ UNCHANGED <<outcome, rerr, hist>>
  /\ UNCHANGED <<fileVars, cfg, kafka, pausedKafka, fetched, srvKafka,
                 srvItems, watch, backupVars, archiveVars, exportVars, cleanseVars>>

\* loop head: Multistream(false), io.ReadAll, switch on gzipReader.Name
RestoreKafka ==
  /\ rpc = "read"
  /\ LET rd == ReadAllSingleStream(backupFile, gzipReader.pos)
         h == HandlerOf(gzipReader.Name)
     IN
     IF ~rd.ok
     THEN /\ Abort("read")
          /\ UNCHANGED <<gzipReader, resources, idx, memberNo, hist>>
     ELSE /\ gzipReader' = [gzipReader EXCEPT !.pos = rd.pos,
                                              !.multistream = FALSE]
          /\ resources' = rd.data
          /\ memberNo' = memberNo + 1
          /\ idx' = 1
          /\ IF h = "unknown"
             THEN /\ Abort("unknown") /\ UNCHANGED hist
             ELSE /\ rpc' = h
                  /\ hist' = Append(hist,
                       [op |-> "handler", kind |-> gzipReader.Name,
                        ok |-> TRUE, obj |-> NoResource, srv |-> NoKafka,
                        m |-> memberNo + 1])
                  /\ UNCHANGED <<outcome, rerr>>
  /\ UNCHANGED <<fileVars, cfg, kafka, pausedKafka, fetched, srvKafka,
                 srvItems, watch, backupVars, archiveVars, exportVars, cleanseVars>>

\* end of the loop body: gzipReader.Reset(bufferedReader)
RestoreKafkaReset ==
  /\ rpc = "reset"
  /\ LET h == GzipReadHeader(backupFile, gzipReader.pos) IN
     CASE h.res = "eof" ->
            /\ rpc' = "unpause"
            /\ Log(Entry("eof", "", TRUE, NoResource, NoKafka))
            /\ UNCHANGED <<outcome, rerr, gzipReader>>
       [] h.res = "ok" ->
            /\ rpc' = "read"
            /\ gzipReader' = [pos |-> h.pos, Name |-> h.name,
                              multistream |-> TRUE]
            /\ UNCHANGED <<outcome, rerr, hist>>
       [] OTHER ->
            /\ Abort("read") /\ UNCHANGED <<gzipReader, hist>>
  /\ UNCHANGED <<fileVars, cfg, resources, idx, memberNo, kafka, pausedKafka,
                 fetched, srvKafka, srvItems, watch, backupVars, archiveVars,
                 exportVars, cleanseVars>>

\* ------------------------------------------------------------------------
\* Restore: restoreKafka
\* ------------------------------------------------------------------------
\* the Kafka resource passed to Create
\* restoreKafka setting the pause annotation only when the archive has none
PausedKafkaToCreate_KeepPause(k) ==
  [CleanseMetadata(k) EXCEPT !.namespace = TargetNamespace,
                             !.name = <<cfg.name, 0>>,
                             !.pause = IF @ = "absent" THEN "true" ELSE @]

PausedKafkaToCreate(k) ==
  [CleanseMetadata(k) EXCEPT !.namespace = TargetNamespace,
                             !.name = <<cfg.name, 0>>,
                             !.pause = "true"]

\* unmarshal, cleanse, rename, pause, Create
restoreKafka ==
  /\ rpc = "restoreKafka"
  /\ LET obj == PausedKafkaToCreate(resources[1]) IN
     \E ok \in BOOLEAN :
       /\ ok => ~srvKafka.exists
       /\ kafka' = obj
       /\ Log(Entry("create", "Kafka", ok, obj, NoKafka))
       /\ IF ok
          THEN /\ srvKafka' = ServerKafka(obj.pause, {}, 1, 0, "", 1)
               /\ rpc' = "waitPaused"
               /\ UNCHANGED <<outcome, rerr>>
          ELSE /\ Abort("create") /\ UNCHANGED srvKafka
  /\ UNCHANGED <<fileVars, cfg, gzipReader, resources, idx, memberNo,
                 pausedKafka, fetched, srvItems, watch, backupVars,
                 archiveVars, exportVars, cleanseVars>>

\* restoreKafkaClusterId sending the status of the paused Kafka as it was
\* received, without the archived cluster ID
restoreKafkaClusterId_StaleStatus ==
  /\ rpc = "clusterId"
  /\ pausedKafka.rv = srvKafka.rv
  /\ srvKafka' = [srvKafka EXCEPT !.conds = pausedKafka.conds,
                                  !.clusterId = pausedKafka.clusterId,
                                  !.rv = @ + 1]
  /\ rpc' = "reset"
  /\ hist' = hist \o
       <<Entry("updateStatus", kafka.clusterId, TRUE, kafka, pausedKafka),
         Entry("return", "restoreKafka", TRUE, kafka, NoKafka)>>
  /\ UNCHANGED <<outcome, rerr>>
  /\ UNCHANGED <<fileVars, cfg, gzipReader, resources, idx, memberNo, kafka,
                 pausedKafka, fetched, srvItems, watch, backupVars,
                 archiveVars, exportVars, cleanseVars>>

\* restoreKafkaClusterId returning an error when the archived Kafka resource
\* has no cluster ID
restoreKafkaClusterId_Required ==
  /\ rpc = "clusterId"
  /\ kafka.clusterId = ""
  /\ Abort("clusterId")
  /\ UNCHANGED <<fileVars, cfg, gzipReader, resources, idx, memberNo, kafka,
                 pausedKafka, fetched, srvKafka, srvItems, watch, hist,
                 backupVars, archiveVars, exportVars, cleanseVars>>

\* after the paused wait: restore the cluster ID through UpdateStatus,
\* then return nil
restoreKafkaClusterId ==
  /\ rpc = "clusterId"
  /\ IF kafka.clusterId # ""
     THEN \E ok \in BOOLEAN :
            /\ ok => pausedKafka.rv = srvKafka.rv
            /\ IF ok
               THEN /\ srvKafka' =
                         [srvKafka EXCEPT
                            !.conds = pausedKafka.conds,
                            !.observedGeneration =
                               pausedKafka.observedGeneration,
                            !.clusterId = kafka.clusterId,
                            !.rv = @ + 1]
                    /\ rpc' = "reset"
                    /\ hist' = hist \o
                         <<Entry("updateStatus", kafka.clusterId, TRUE, kafka,
                                 pausedKafka),
                           Entry("return", "restoreKafka", TRUE, kafka,
                                 NoKafka)>>
                    /\ UNCHANGED <<outcome, rerr>>
               ELSE /\ Abort("updateStatus")
                    /\ Log(Entry("updateStatus", kafka.clusterId, FALSE,
                                 kafka, pausedKafka))
                    /\ UNCHANGED srvKafka
     ELSE /\ rpc' = "reset"
          /\ Log(Entry("return", "restoreKafka", TRUE, kafka, NoKafka))
          /\ UNCHANGED <<outcome, rerr, srvKafka>>
  /\ UNCHANGED <<fileVars, cfg, gzipReader, resources, idx, memberNo, kafka,
                 pausedKafka, fetched, srvItems, watch, backupVars,
                 archiveVars, exportVars, cleanseVars>>

\* ------------------------------------------------------------------------
\* Restore: the list handlers
\* ------------------------------------------------------------------------
\* the resource a list handler passes to Create
ItemToCreate(item) == updateNamespaceAndClusterName(CleanseMetadata(item))

\* RestoreItems going on to the next element after a failed Create
RestoreItems_ContinueOnError(handler, fnames) ==
  /\ rpc = handler
  /\ gzipReader.Name \in fnames
  /\ IF idx > Len(resources)
     THEN /\ rpc' = "reset"
          /\ UNCHANGED <<outcome, rerr, idx, srvItems, hist>>
     ELSE LET obj == ItemToCreate(resources[idx])
              key == <<obj.kind, obj.name>>
          IN
          \E ok \in BOOLEAN :
            /\ ok => key \notin srvItems
            /\ Log(Entry("create", obj.kind, ok, obj, NoKafka))
            /\ srvItems' = IF ok THEN srvItems \cup {key} ELSE srvItems
            /\ idx' = idx + 1
            /\ UNCHANGED <<rpc, outcome, rerr>>
  /\ UNCHANGED <<fileVars, cfg, gzipReader, resources, memberNo, kafka,
                 pausedKafka, fetched, srvKafka, watch, backupVars,
                 archiveVars, exportVars, cleanseVars>>

\* one turn of the handler's range loop: Create the next element, or
\* return nil when the list is exhausted
RestoreItems(handler, fnames) ==
  /\ rpc = handler
  /\ gzipReader.Name \in fnames
  /\ IF idx > Len(resources)
     THEN /\ rpc' = "reset"
          /\ UNCHANGED <<outcome, rerr, idx, srvItems, hist>>
     ELSE LET obj == ItemToCreate(resources[idx])
              key == <<obj.kind, obj.name>>
          IN
          \E ok \in BOOLEAN :
            /\ ok => key \notin srvItems
            /\ Log(Entry("create", obj.kind, ok, obj, NoKafka))
            /\ IF ok
               THEN /\ srvItems' = srvItems \cup {key}
                    /\ idx' = idx + 1
                    /\ UNCHANGED <<rpc, outcome, rerr>>
               ELSE /\ Abort("create") /\ UNCHANGED <<idx, srvItems>>
  /\ UNCHANGED <<fileVars, cfg, gzipReader, resources, memberNo, kafka,
                 pausedKafka, fetched, srvKafka, watch, backupVars,
                 archiveVars, exportVars, cleanseVars>>

restoreKafkaNodePools ==
  RestoreItems("restoreKafkaNodePools", {KafkaNodePoolsFilename})

restoreKafkaUsers == RestoreItems("restoreKafkaUsers", {KafkaUsersFilename})

restoreKafkaTopics ==
  RestoreItems("restoreKafkaTopics", {KafkaTopicsFilename})

restoreSecrets ==
  RestoreItems("restoreSecrets", {CaSecretsFilename, KafkaUserSecretsFilename})

\* ------------------------------------------------------------------------
\* The waits: waitUntilReconciliationPaused and waitUntilReady
\* ------------------------------------------------------------------------
\* the predicate a wait evaluates on each event
Satisfies(pred, k) ==
  IF pred = "paused" THEN IsReconciliationPaused(k) ELSE IsReady(k)

\* a wait returning without stopping its watch
StopWatch_Leak == watch' = watch

\* the return of a wait: deferred watcher.Stop() and watchContextCancel()
StopWatch == watch' = [NoWatch EXCEPT !.now = watch.now]

\* the wait taking its deadline from the start of the run instead of from
\* its own call
WatchOpen_SharedDeadline(at, pred) ==
  /\ rpc = at
  /\ ~watch.open
  /\ Log(Entry("watch", pred, TRUE, NoResource, NoKafka))
  /\ watch' = [open |-> TRUE, pred |-> pred,
               events |-> IF srvKafka.exists THEN <<srvKafka>> ELSE <<>>,
               closed |-> FALSE, done |-> (watch.now >= cfg.timeout),
               now |-> watch.now, deadline |-> cfg.timeout]
  /\ UNCHANGED <<rpc, outcome, rerr, pausedKafka>>

\* context.WithTimeout, then Watch; a failure to open the watch panics.
\* A watch opened without a resource version starts with the current state
\* of the resource.
WatchOpen(at, pred) ==
  /\ rpc = at
  /\ ~watch.open
  /\ \E ok \in BOOLEAN :
       /\ Log(Entry("watch", pred, ok, NoResource, NoKafka))
       /\ IF ok
          THEN /\ watch' = [open |-> TRUE, pred |-> pred,
                            events |-> IF srvKafka.exists THEN <<srvKafka>>
                                       ELSE <<>>,
                            closed |-> FALSE, done |-> FALSE,
                            now |-> watch.now,
                            deadline |-> watch.now + cfg.timeout]
               /\ UNCHANGED <<rpc, outcome, rerr>>
          ELSE /\ Panic /\ UNCHANGED watch
  /\ UNCHANGED <<pausedKafka>>

\* the wait returning success on whatever event it receives
WaitEvent_AnyEvent(at, pred, next) ==
  /\ rpc = at
  /\ watch.open
  /\ watch.events # <<>>
  /\ StopWatch
  /\ Log(Entry("waitOk", pred, TRUE, NoResource, Head(watch.events)))
  /\ pausedKafka' = IF pred = "paused" THEN Head(watch.events)
                    ELSE pausedKafka
  /\ rpc' = next
  /\ outcome' = IF next = "exit" THEN "Completed" ELSE outcome
  /\ UNCHANGED rerr

\* select: an event is received from watcher.ResultChan()
WaitEvent(at, pred, next) ==
  /\ rpc = at
  /\ watch.open
  /\ watch.events # <<>>
  /\ LET e == Head(watch.events) IN
     IF Satisfies(pred, e)
     THEN /\ StopWatch
          /\ Log(Entry("waitOk", pred, TRUE, NoResource, e))
          /\ pausedKafka' = IF pred = "paused" THEN e ELSE pausedKafka
          /\ rpc' = next
          /\ outcome' = IF next = "exit" THEN "Completed" ELSE outcome
          /\ UNCHANGED rerr
     ELSE /\ watch' = [watch EXCEPT !.events = Tail(@)]
          /\ UNCHANGED <<rpc, outcome, rerr, pausedKafka, hist>>

\* select: the receive from a closed channel yields the zero Event, whose
\* Object is nil, and the type assertion on it panics
WaitClosed(at) ==
  /\ rpc = at
  /\ watch.open
  /\ watch.events = <<>>
  /\ watch.closed
  /\ Panic
  /\ StopWatch
  /\ Log(Entry("waitPanic", watch.pred, FALSE, NoResource, NoKafka))
  /\ UNCHANGED pausedKafka

\* select: watchContext.Done()
WaitTimeout(at) ==
  /\ rpc = at
  /\ watch.open
  /\ watch.done
  /\ Abort("timeout")
  /\ StopWatch
  /\ Log(Entry("waitTimeout", watch.pred, FALSE, NoResource, NoKafka))
  /\ UNCHANGED pausedKafka

WaitUntil(at, pred, next) ==
  /\ \/ WatchOpen(at, pred)
     \/ WaitEvent(at, pred, next)
     \/ WaitClosed(at)
     \/ WaitTimeout(at)
  /\ UNCHANGED <<fileVars, cfg, gzipReader, resources, idx, memberNo, kafka,
                 fetched, srvKafka, srvItems, backupVars, archiveVars,
                 exportVars, cleanseVars>>

\* waitUntilReconciliationPaused returning the first event it receives,
\* whatever its conditions
waitUntilReconciliationPaused_FirstEvent ==
  /\ \/ WatchOpen("waitPaused", "paused")
     \/ /\ rpc = "waitPaused"
        /\ watch.open
        /\ watch.events # <<>>
        /\ StopWatch
        /\ Log(Entry("waitOk", "paused", TRUE, NoResource,
                     Head(watch.events)))
        /\ pausedKafka' = Head(watch.events)
        /\ rpc' = "clusterId"
        /\ UNCHANGED <<outcome, rerr>>
  /\ UNCHANGED <<fileVars, cfg, gzipReader, resources, idx, memberNo, kafka,
                 fetched, srvKafka, srvItems, backupVars, archiveVars,
                 exportVars, cleanseVars>>

waitUntilReconciliationPaused ==
  WaitUntil("waitPaused", "paused", "clusterId")

waitUntilReady == WaitUntil("waitReady", "ready", "exit")

\* ------------------------------------------------------------------------
\* Restore: unpauseKafkaClusterAndWaitForReadiness
\* ------------------------------------------------------------------------
\* unpauseKafkaClusterAndWaitForReadiness taking the paused branch whatever
\* the fetched resource looks like
unpauseKafkaClusterAndWaitForReadiness_AlwaysUpdate ==
  /\ rpc = "unpause"
  /\ srvKafka.exists
  /\ Log(Entry("get", "Kafka", TRUE, NoResource, srvKafka))
  /\ fetched' = srvKafka
  /\ rpc' = "unpauseUpdate"
  /\ UNCHANGED <<outcome, rerr>>
  /\ UNCHANGED <<fileVars, cfg, gzipReader, resources, idx, memberNo, kafka,
                 pausedKafka, srvKafka, srvItems, watch, backupVars,
                 archiveVars, exportVars, cleanseVars>>

\* Get, then the three-way branch on the fetched resource
\* unpauseKafkaClusterAndWaitForReadiness testing IsReady before
\* IsReconciliationPaused
unpauseKafkaClusterAndWaitForReadiness_ReadyFirst ==
  /\ rpc = "unpause"
  /\ \E ok \in BOOLEAN :
       /\ ok => srvKafka.exists
       /\ Log(Entry("get", "Kafka", ok, NoResource,
                    IF ok THEN srvKafka ELSE NoKafka))
       /\ IF ~ok
          THEN /\ Abort("get") /\ UNCHANGED fetched
          ELSE /\ fetched' = srvKafka
               /\ IF IsReady(srvKafka)
                  THEN /\ rpc' = "exit" /\ outcome' = "Completed"
                       /\ UNCHANGED rerr
                  ELSE IF IsReconciliationPaused(srvKafka)
                  THEN /\ rpc' = "unpauseUpdate"
                       /\ UNCHANGED <<outcome, rerr>>
                  ELSE /\ rpc' = "waitReady"
                       /\ UNCHANGED <<outcome, rerr>>
  /\ UNCHANGED <<fileVars, cfg, gzipReader, resources, idx, memberNo, kafka,
                 pausedKafka, srvKafka, srvItems, watch, backupVars,
                 archiveVars, exportVars, cleanseVars>>

unpauseKafkaClusterAndWaitForReadiness ==
  /\ rpc = "unpause"
  /\ \E ok \in BOOLEAN :
       /\ ok => srvKafka.exists
       /\ Log(Entry("get", "Kafka", ok, NoResource,
                    IF ok THEN srvKafka ELSE NoKafka))
       /\ IF ~ok
          THEN /\ Abort("get") /\ UNCHANGED fetched
          ELSE /\ fetched' = srvKafka
               /\ IF IsReconciliationPaused(srvKafka)
                  THEN /\ rpc' = "unpauseUpdate"
                       /\ UNCHANGED <<outcome, rerr>>
                  ELSE IF IsReady(srvKafka)
                  THEN /\ rpc' = "exit" /\ outcome' = "Completed"
                       /\ UNCHANGED rerr
                  ELSE /\ rpc' = "waitReady"
                       /\ UNCHANGED <<outcome, rerr>>
  /\ UNCHANGED <<fileVars, cfg, gzipReader, resources, idx, memberNo, kafka,
                 pausedKafka, srvKafka, srvItems, watch, backupVars,
                 archiveVars, exportVars, cleanseVars>>

\* unpauseUpdate returning success right after the Update, without the wait
unpauseUpdate_NoWait ==
  /\ rpc = "unpauseUpdate"
  /\ fetched.rv = srvKafka.rv
  /\ Log(Entry("update", "false", TRUE, NoResource, fetched))
  /\ srvKafka' = [srvKafka EXCEPT !.pause = "false", !.rv = @ + 1]
  /\ rpc' = "exit" /\ outcome' = "Completed"
  /\ UNCHANGED rerr
  /\ UNCHANGED <<fileVars, cfg, gzipReader, resources, idx, memberNo, kafka,
                 pausedKafka, fetched, srvItems, watch, backupVars,
                 archiveVars, exportVars, cleanseVars>>

\* the paused branch: set the pause annotation to "false" and Update
unpauseUpdate ==
  /\ rpc = "unpauseUpdate"
  /\ \E ok \in BOOLEAN :
       /\ ok => fetched.rv = srvKafka.rv
       /\ Log(Entry("update", "false", ok, NoResource, fetched))
       /\ IF ok
          THEN /\ srvKafka' = [srvKafka EXCEPT !.pause = "false",
                                               !.rv = @ + 1]
               /\ rpc' = "waitReady"
               /\ UNCHANGED <<outcome, rerr>>
          ELSE /\ Abort("update") /\ UNCHANGED srvKafka
  /\ UNCHANGED <<fileVars, cfg, gzipReader, resources, idx, memberNo, kafka,
                 pausedKafka, fetched, srvItems, watch, backupVars,
                 archiveVars, exportVars, cleanseVars>>

\* ------------------------------------------------------------------------
\* Environment of a restore: the cluster operator, the watch, the clock
\* ------------------------------------------------------------------------
\* the status the operator may write for the resource as it stands
OperatorConds(k) ==
  IF k.pause = "true"
  THEN IF "ReconciliationPaused" \in k.conds /\ "Ready" \notin k.conds
       THEN {} ELSE {{"ReconciliationPaused"}}
  ELSE IF "Ready" \in k.conds /\ "ReconciliationPaused" \notin k.conds
       THEN {}
       ELSE {{"Ready"}} \cup
            (IF "ReconciliationPaused" \in k.conds THEN {{"NotReady"}}
             ELSE {})

\* the operator reconciles the Kafka resource and updates its status
OperatorReconcile ==
  /\ outcome = "running"
  /\ srvKafka.exists
  /\ \E c \in OperatorConds(srvKafka) :
       LET k == [srvKafka EXCEPT !.conds = c,
                                 !.observedGeneration = srvKafka.generation,
                                 !.rv = @ + 1]
       IN /\ srvKafka' = k
          /\ watch' = Emit(watch, k)
  /\ UNCHANGED <<fileVars, cfg, rpc, outcome, rerr, gzipReader, resources,
                 idx, memberNo, kafka, pausedKafka, fetched, srvItems, hist,
                 backupVars, archiveVars, exportVars, cleanseVars>>

\* time passes during a wait; the wait's context is done once its deadline
\* is reached
DeadlineElapses ==
  /\ watch.open
  /\ ~watch.done
  /\ watch' = [watch EXCEPT !.now = @ + 1,
                            !.done = (watch.now + 1 >= watch.deadline)]
  /\ UNCHANGED <<fileVars, cfg, rpc, outcome, rerr, gzipReader, resources,
                 idx, memberNo, kafka, pausedKafka, fetched, srvKafka,
                 srvItems, hist, backupVars, archiveVars, exportVars, cleanseVars>>

\* the event channel is closed: the server ends the watch, or the transport
\* closes it once the context is done
WatchChannelCloses ==
  /\ watch.open
  /\ ~watch.closed
  /\ watch' = [watch EXCEPT !.closed = TRUE]
  /\ UNCHANGED <<fileVars, cfg, rpc, outcome, rerr, gzipReader, resources,
                 idx, memberNo, kafka, pausedKafka, fetched, srvKafka,
                 srvItems, hist, backupVars, archiveVars, exportVars, cleanseVars>>

Next ==
  \/ NewKafkaRestorer
  \/ RestoreKafka
  \/ RestoreKafkaReset
  \/ restoreKafka
  \/ waitUntilReconciliationPaused
  \/ restoreKafkaClusterId
  \/ restoreKafkaNodePools
  \/ restoreKafkaUsers
  \/ restoreKafkaTopics
  \/ restoreSecrets
  \/ unpauseKafkaClusterAndWaitForReadiness
  \/ unpauseUpdate
  \/ waitUntilReady
  \/ OperatorReconcile
  \/ DeadlineElapses
  \/ WatchChannelCloses

Spec == Init /\ [][Next]_vars

\* A restore run with the --timeout given on the command line: the archive
\* of a backup, with or without its kafka.yaml, each list holding one item.
InitTimed ==
  /\ \E shape \in {CanonicalOrder, Tail(CanonicalOrder)},
        clusterId \in ClusterIds :
        backupFile = ArchiveOf(shape, 1, clusterId)
  /\ fileExists = TRUE
  /\ \E t \in 1..MaxTimeout : cfg = [NoFlags EXCEPT !.timeout = t]
  /\ rpc = "new" /\ outcome = "running" /\ rerr = "none"
  /\ gzipReader = [pos |-> 1, Name |-> "", multistream |-> TRUE]
  /\ resources = <<>> /\ idx = 1 /\ memberNo = 0
  /\ kafka = NoResource /\ pausedKafka = NoKafka /\ fetched = NoKafka
  /\ srvKafka \in PreExisting
  /\ srvItems = {} /\ watch = NoWatch /\ hist = <<>>
  /\ BackupIdle /\ ArchiveIdle /\ ExportIdle /\ CleanseIdle

SpecTimed == InitTimed /\ [][Next]_vars


\* ------------------------------------------------------------------------
\* Properties of a restore run
\* ------------------------------------------------------------------------
DependentKinds == {"KafkaNodePool", "KafkaTopic", "KafkaUser", "Secret"}

HistIdx == 1..Len(hist)

\* the archive's members, by their headers
MemberHeaders(f) == {i \in 1..Len(f) : f[i].t = "hdr"}

FirstMemberIsKafka ==
  Len(backupFile) > 0 /\ backupFile[1].name = KafkaFilename

\* the cluster ID in the status of the archived Kafka resource
ArchivedClusterId ==
  LET S == {i \in 2..Len(backupFile) :
              /\ backupFile[i].t = "dat"
              /\ backupFile[i - 1].name = KafkaFilename}
  IN IF S = {} THEN "" ELSE backupFile[CHOOSE i \in S : TRUE].data[1].clusterId

IsDependentCreate(e) == e.op = "create" /\ e.kind \in DependentKinds

IsPausedKafkaCreated(e) ==
  e.op = "create" /\ e.kind = "Kafka" /\ e.ok /\ e.obj.pause = "true"

IsPausedSeen(e) ==
  e.op = "waitOk" /\ e.kind = "paused" /\ "ReconciliationPaused" \in e.srv.conds

\* C1: when the archive starts with kafka.yaml, every create of a node pool,
\* topic, user or secret comes after the Kafka resource was created with the
\* pause annotation "true" and after a watch event showed its
\* ReconciliationPaused condition true.
C1_DependentsAfterPausedPrimary ==
  FirstMemberIsKafka =>
    \A i \in HistIdx :
      IsDependentCreate(hist[i]) =>
        \E j \in 1..(i - 1), k \in 1..(i - 1) :
          /\ j < k
          /\ IsPausedKafkaCreated(hist[j])
          /\ IsPausedSeen(hist[k])

C1_Witness ==
  /\ FirstMemberIsKafka
  /\ \E i \in HistIdx : IsDependentCreate(hist[i]) /\ hist[i].ok

UnpauseUpdates == {i \in HistIdx : hist[i].op = "update"}

\* everything the update waits for: the end of the archive was reached with
\* every member read, and no create failed
AllRestoredBefore(i) ==
  /\ \E j \in 1..(i - 1) : hist[j].op = "eof"
  /\ hist[i].m = Cardinality(MemberHeaders(backupFile))
  /\ \A j \in 1..(i - 1) : hist[j].op = "create" => hist[j].ok

FollowedByReadyWait(i) ==
  IF i < Len(hist)
  THEN hist[i + 1].op = "watch" /\ hist[i + 1].kind = "ready"
  ELSE outcome = "running"

\* C2 as stated: the update setting the pause annotation to "false" is issued
\* at most once, only after every member was read and every create succeeded,
\* and it is followed by a wait on the ready predicate.
C2_UnpauseOnceThenWait ==
  /\ Cardinality(UnpauseUpdates) <= 1
  /\ \A i \in UnpauseUpdates :
       /\ AllRestoredBefore(i)
       /\ FollowedByReadyWait(i)

\* C2 amended: as above, but only an update the server accepted is followed by
\* the ready wait; a rejected update ends the run with that error.
C2_UnpauseOnceThenWaitIfAccepted ==
  /\ Cardinality(UnpauseUpdates) <= 1
  /\ \A i \in UnpauseUpdates :
       /\ AllRestoredBefore(i)
       /\ IF hist[i].ok
          THEN FollowedByReadyWait(i)
          ELSE i = Len(hist) /\ outcome = "Aborted" /\ rerr = "update"

C2_Witness ==
  \E i \in UnpauseUpdates :
    /\ hist[i].ok
    /\ i < Len(hist)
    /\ \E j \in 1..(i - 1) : IsDependentCreate(hist[j])

ReadyCond(k) ==
  "Ready" \in k.conds /\ k.observedGeneration = k.generation

IsReadySeen(e) ==
  \/ e.op = "get" /\ e.ok /\ ReadyCond(e.srv)
  \/ e.op = "waitOk" /\ e.kind = "ready" /\ ReadyCond(e.srv)

\* C3: RestoreKafka returns success only if the Kafka resource was seen ready
\* (on the re-fetch or in an event of the ready wait), and every other run of
\* RestoreKafka ends Aborted with an error.
C3_CompletedIffReadySeen ==
  /\ outcome = "Completed" => \E i \in HistIdx : IsReadySeen(hist[i])
  /\ (rpc = "exit" /\ outcome \notin {"Completed", "InitFailed"}) =>
        (outcome = "Aborted" /\ rerr # "none")

\* C4: a failed create ends the run with that error; nothing is called after
\* it: no create, no handler, no completion step.
C4_FailedCreateEndsRun ==
  \A i \in HistIdx :
    (hist[i].op = "create" /\ ~hist[i].ok) =>
      /\ i = Len(hist)
      /\ rpc = "exit" /\ outcome = "Aborted" /\ rerr = "create"

C4_Witness ==
  /\ \E i \in HistIdx : hist[i].op = "create" /\ ~hist[i].ok
                        /\ hist[i].kind \in DependentKinds
  /\ \E i \in HistIdx : hist[i].op = "create" /\ hist[i].ok
  /\ GzipReadHeader(backupFile, gzipReader.pos).res = "ok"

\* a member with a name outside the dispatch table has been read
UnknownMemberRead ==
  /\ memberNo >= 1
  /\ rpc # "read"
  /\ gzipReader.Name \notin KnownFilenames

\* C5: reading a member whose name is none of the six known names makes
\* RestoreKafka return an error; nothing of that member or of a later one is
\* created, and the completion step is not executed.
C5_UnknownMemberAborts ==
  UnknownMemberRead =>
    /\ rpc = "exit" /\ outcome = "Aborted" /\ rerr = "unknown"
    /\ \A i \in HistIdx :
         /\ hist[i].m < memberNo
         /\ hist[i].op \notin {"eof", "get", "update"}
         /\ hist[i].op = "watch" => hist[i].kind = "paused"

C5_Witness ==
  /\ UnknownMemberRead
  /\ memberNo >= 2
  /\ \E i \in HistIdx : hist[i].op = "create" /\ hist[i].ok
  /\ GzipReadHeader(backupFile, gzipReader.pos).res = "ok"

IsPrimaryRestored(e) == e.op = "return" /\ e.kind = "restoreKafka"

\* C6: if the archived Kafka resource has a cluster ID, then once restoreKafka
\* has returned success the Kafka resource on the server holds that cluster
\* ID in its status, put there by a status update issued after the paused
\* condition was seen.
C6_ClusterIdRestored ==
  ArchivedClusterId # "" =>
    \A i \in HistIdx :
      IsPrimaryRestored(hist[i]) =>
        /\ srvKafka.exists
        /\ srvKafka.clusterId = ArchivedClusterId
        /\ \E j \in 1..(i - 1), k \in 1..(i - 1) :
             /\ k < j
             /\ IsPausedSeen(hist[k])
             /\ hist[j].op = "updateStatus" /\ hist[j].ok
             /\ hist[j].kind = ArchivedClusterId

C6_Witness ==
  /\ ArchivedClusterId = "abc-123"
  /\ \E i \in HistIdx : IsPrimaryRestored(hist[i])
  /\ outcome = "Completed"

\* C7: a wait that no event satisfies ends by returning the timeout error: it
\* never ends in a panic and never returns success.
C7_UnsatisfiedWaitTimesOut ==
  \A i \in HistIdx :
    /\ hist[i].op # "waitPanic"
    /\ hist[i].op = "waitOk" =>
         (IF hist[i].kind = "paused"
          THEN "ReconciliationPaused" \in hist[i].srv.conds
          ELSE ReadyCond(hist[i].srv))
    /\ hist[i].op = "waitTimeout" =>
         (i = Len(hist) /\ outcome = "Aborted" /\ rerr = "timeout")


\* ========================================================================
\* Backup
\* ========================================================================
\* what a file that is already at the output path holds
OldContent == EncodeMember("old.yaml", <<>>)

InitBackup ==
  /\ fileExists \in BOOLEAN
  /\ backupFile = IF fileExists THEN OldContent ELSE <<>>
  /\ cfg = NoFlags
  /\ bpc = "new" /\ bresult = "running" /\ berr = "none"
  /\ gzipWriter = NewGzipWriter
  /\ bufferedWriter = NewBufferedWriter
  /\ RestoreIdle /\ ArchiveIdle /\ ExportIdle /\ CleanseIdle

\* the flags of a backup command line: a name, --skip-metadata-cleansing and
\* the skip flags given
BackupCfg(name, skip, given) ==
  [NoFlags EXCEPT !.name = name, !.skipMetadataCleansing = skip,
                  !.skipCaSecrets = ("skip-ca-secrets" \in given),
                  !.skipUserSecrets = ("skip-user-secrets" \in given)]

\* NewKafkaBackuper opening the file without O_EXCL: an existing file is
\* truncated
NewKafkaBackuper_Overwrite ==
  /\ bpc = "new"
  /\ \E name \in {"", SourceName}, skip \in BOOLEAN,
        env \in {"ok", "clients", "open"}, given \in SUBSET BackupSkipFlags :
       /\ cfg' = BackupCfg(name, skip, given)
       /\ IF ~(given \subseteq BackupFlags) \/ name = "" \/ env # "ok"
          THEN /\ bpc' = "exit" /\ bresult' = "initFailed"
               /\ berr' = IF ~(given \subseteq BackupFlags) THEN "unknownFlag"
                          ELSE IF name = "" THEN "name" ELSE env
               /\ UNCHANGED <<fileVars, gzipWriter, bufferedWriter>>
          ELSE /\ bpc' = "BackupKafka"
               /\ fileExists' = TRUE
               /\ backupFile' = <<>>
               /\ bufferedWriter' = NewBufferedWriter
               /\ gzipWriter' = NewGzipWriter
               /\ UNCHANGED <<bresult, berr>>
  /\ UNCHANGED <<restoreVars, archiveVars, exportVars, cleanseVars>>

\* NewBackuper opening the output file before it checks the name
NewKafkaBackuper_OpenFirst ==
  /\ bpc = "new"
  /\ \E name \in {"", SourceName}, skip \in BOOLEAN,
        env \in {"ok", "clients", "open"}, given \in SUBSET BackupSkipFlags :
       /\ cfg' = BackupCfg(name, skip, given)
       /\ IF ~(given \subseteq BackupFlags) \/ env = "open" \/ fileExists
          THEN /\ bpc' = "exit" /\ bresult' = "initFailed"
               /\ berr' = IF ~(given \subseteq BackupFlags) THEN "unknownFlag"
                          ELSE IF fileExists THEN "exists" ELSE "open"
               /\ UNCHANGED <<fileVars, gzipWriter, bufferedWriter>>
          ELSE /\ fileExists' = TRUE
               /\ backupFile' = <<>>
               /\ bufferedWriter' = NewBufferedWriter
               /\ gzipWriter' = NewGzipWriter
               /\ IF name = "" \/ env # "ok"
                  THEN /\ bpc' = "exit" /\ bresult' = "initFailed"
                       /\ berr' = IF name = "" THEN "name" ELSE env
                  ELSE /\ bpc' = "BackupKafka"
                       /\ UNCHANGED <<bresult, berr>>
  /\ UNCHANGED <<restoreVars, archiveVars, exportVars, cleanseVars>>

\* The backup command, up to the first step.  A flag that is not declared on
\* the command is rejected when the command line is parsed, before Run.
\* Then NewBackuper / NewKafkaBackuper: the name check, the clients, the
\* flag, the file opened with O_CREATE|O_EXCL|O_WRONLY.  On an error the
\* command exits before any step and before the deferred Close is registered.
NewKafkaBackuper ==
  /\ bpc = "new"
  /\ \E name \in {"", SourceName}, skip \in BOOLEAN,
        env \in {"ok", "clients", "open"}, given \in SUBSET BackupSkipFlags :
       /\ cfg' = BackupCfg(name, skip, given)
       /\ IF ~(given \subseteq BackupFlags) \/ name = "" \/ env # "ok"
             \/ fileExists
          THEN /\ bpc' = "exit" /\ bresult' = "initFailed"
               /\ berr' = IF ~(given \subseteq BackupFlags) THEN "unknownFlag"
                          ELSE IF name = "" THEN "name"
                          ELSE IF env = "clients" THEN "clients"
                          ELSE IF fileExists THEN "exists" ELSE "open"
               /\ UNCHANGED <<fileVars, gzipWriter, bufferedWriter>>
          ELSE /\ bpc' = "BackupKafka"
               /\ fileExists' = TRUE
               /\ backupFile' = <<>>
               /\ bufferedWriter' = NewBufferedWriter
               /\ gzipWriter' = NewGzipWriter
               /\ UNCHANGED <<bresult, berr>>
  /\ UNCHANGED <<restoreVars, archiveVars, exportVars, cleanseVars>>

\* Backuper.metadataCleansing: the struct field NewBackuper fills from the
\* flag it read
metadataCleansing == cfg.skipMetadataCleansing

\* the resources a step fetches: the Kafka resource, or a list of n items
Fetched(fname, n, clusterId) ==
  IF fname = KafkaFilename
  THEN <<Resource("Kafka", <<cfg.name, 0>>, "absent", clusterId)>>
  ELSE [i \in 1..n |-> ArchivedItem(fname, i)]

\* the metadata of every fetched resource cleansed if the field says so
Cleansed(rs) ==
  IF metadataCleansing THEN [i \in 1..Len(rs) |-> CleanseMetadata(rs[i])]
  ELSE rs

\* gzip.Writer.Write: the header first if it is not written yet, then the data
GzipWriteOut(w, p) ==
  (IF w.wroteHeader THEN <<>> ELSE <<Hdr(w.Name)>>) \o <<Dat(p)>>

\* gzip.Writer.Close: nothing once closed or failed; else the header if it is
\* not written yet, then the trailer
GzipCloseOut(w) ==
  IF w.closed \/ w.err THEN <<>>
  ELSE (IF w.wroteHeader THEN <<>> ELSE <<Hdr(w.Name)>>) \o <<Trl(w.size)>>

\* bufio.Writer.Write of tokens: they stay in the buffer, or the buffer
\* fills and is written through to the file
Buffered(toks, flush) ==
  IF flush
  THEN /\ backupFile' = backupFile \o bufferedWriter.buf \o toks
       /\ bufferedWriter' = [bufferedWriter EXCEPT !.buf = <<>>]
  ELSE /\ backupFile' = backupFile
       /\ bufferedWriter' = [bufferedWriter EXCEPT !.buf = @ \o toks]

\* the command logging a step's error and going on to the last step
StepFailed_Continue(err) ==
  /\ bpc' = IF bpc = "BackupUserSecrets" THEN "close" ELSE "BackupUserSecrets"
  /\ bresult' = "failed" /\ berr' = err

\* the command panics on a step's error; the deferred Close runs next
StepFailed(err) ==
  /\ bpc' = "close" /\ bresult' = "failed" /\ berr' = err

\* One Backup* method: Reset and the header fields, Get or List, the
\* cleansing, Marshal, Write, Close.  fail names the call that returns an
\* error, if any.
BackupStep(step, fname, next) ==
  /\ bpc = step
  /\ \E fail \in {"none", "fetch", "marshal", "write", "close"},
        n \in 0..MaxItems, clusterId \in ClusterIds, flush \in BOOLEAN :
       LET w0 == [NewGzipWriter EXCEPT !.Name = fname]
           yaml == Cleansed(Fetched(fname, n, clusterId))
           w1 == [w0 EXCEPT !.wroteHeader = TRUE, !.size = Len(yaml)]
           w2 == [w1 EXCEPT !.closed = TRUE]
       IN
       CASE fail \in {"fetch", "marshal"} ->
              /\ gzipWriter' = w0
              /\ UNCHANGED <<backupFile, bufferedWriter>>
              /\ StepFailed(fail)
         [] fail = "write" ->
              \* the buffer is written through and the file write fails
              /\ gzipWriter' = [w0 EXCEPT !.wroteHeader = TRUE, !.err = TRUE]
              /\ bufferedWriter' = [bufferedWriter EXCEPT !.err = TRUE]
              /\ UNCHANGED backupFile
              /\ StepFailed(fail)
         [] fail = "close" ->
              /\ gzipWriter' = [w1 EXCEPT !.err = TRUE]
              /\ IF flush
                 THEN /\ backupFile' =
                           backupFile \o bufferedWriter.buf
                                      \o GzipWriteOut(w0, yaml)
                      /\ bufferedWriter' = [buf |-> <<>>, err |-> TRUE]
                 ELSE /\ backupFile' = backupFile
                      /\ bufferedWriter' =
                           [buf |-> bufferedWriter.buf
                                      \o GzipWriteOut(w0, yaml),
                            err |-> TRUE]
              /\ StepFailed(fail)
         [] OTHER ->
              /\ gzipWriter' = w2
              /\ Buffered(GzipWriteOut(w0, yaml) \o GzipCloseOut(w1), flush)
              /\ bpc' = next
              /\ UNCHANGED <<bresult, berr>>
  /\ UNCHANGED <<fileExists, cfg, restoreVars, archiveVars, exportVars, cleanseVars>>

BackupKafka == BackupStep("BackupKafka", KafkaFilename, "BackupKafkaNodePools")

BackupKafkaNodePools ==
  BackupStep("BackupKafkaNodePools", KafkaNodePoolsFilename, "BackupCaSecrets")

BackupCaSecrets ==
  BackupStep("BackupCaSecrets", CaSecretsFilename, "BackupKafkaTopics")

\* BackupKafkaTopics writing its member under the name of the users member
BackupKafkaTopics_WrongName ==
  BackupStep("BackupKafkaTopics", KafkaUsersFilename, "BackupKafkaUsers")

BackupKafkaTopics ==
  BackupStep("BackupKafkaTopics", KafkaTopicsFilename, "BackupKafkaUsers")

BackupKafkaUsers ==
  BackupStep("BackupKafkaUsers", KafkaUsersFilename, "BackupUserSecrets")

BackupUserSecrets ==
  BackupStep("BackupUserSecrets", KafkaUserSecretsFilename, "close")

\* Backuper.Close, deferred by the command: Flush and Close of the gzip
\* writer, Flush of the buffered writer, Close of the file.  Every error is
\* only logged.
BackuperClose ==
  /\ bpc = "close"
  /\ \E flushOk \in BOOLEAN :
       LET \* gzipWriter.Flush writes the header if the member has none yet
           flushOut == IF gzipWriter.err \/ gzipWriter.closed
                          \/ gzipWriter.wroteHeader
                       THEN <<>> ELSE <<Hdr(gzipWriter.Name)>>
           w1 == IF gzipWriter.err \/ gzipWriter.closed THEN gzipWriter
                 ELSE [gzipWriter EXCEPT !.wroteHeader = TRUE]
           out == flushOut \o GzipCloseOut(w1)
           w2 == IF w1.err THEN w1 ELSE [w1 EXCEPT !.closed = TRUE]
           stored == bufferedWriter.buf \o out
       IN
       /\ gzipWriter' = w2
       /\ IF flushOk /\ ~bufferedWriter.err
          THEN /\ backupFile' = backupFile \o stored
               /\ bufferedWriter' = [bufferedWriter EXCEPT !.buf = <<>>]
          ELSE /\ backupFile' = backupFile
               /\ bufferedWriter' =
                    [buf |-> IF bufferedWriter.err THEN bufferedWriter.buf
                             ELSE stored,
                     err |-> TRUE]
  /\ bpc' = "exit"
  /\ bresult' = IF bresult = "failed" THEN "failed" ELSE "ok"
  /\ UNCHANGED <<fileExists, cfg, berr, restoreVars, archiveVars,
                 exportVars, cleanseVars>>

NextBackup ==
  \/ NewKafkaBackuper
  \/ BackupKafka
  \/ BackupKafkaNodePools
  \/ BackupCaSecrets
  \/ BackupKafkaTopics
  \/ BackupKafkaUsers
  \/ BackupUserSecrets
  \/ BackuperClose

SpecBackup == InitBackup /\ [][NextBackup]_vars

\* ------------------------------------------------------------------------
\* Properties of a backup run
\* ------------------------------------------------------------------------
\* everything the run has written to the archive: what is in the file,
\* followed by what is still in the buffered writer
ArchiveStream == backupFile \o bufferedWriter.buf

\* the names of the members of a token stream, in order
RECURSIVE NamesOf(_)
NamesOf(f) ==
  IF f = <<>> THEN <<>>
  ELSE (IF f[1].t = "hdr" THEN <<f[1].name>> ELSE <<>>) \o NamesOf(Tail(f))

IsPrefix(s, t) == Len(s) <= Len(t) /\ s = SubSeq(t, 1, Len(s))

\* the backuper was created: the run owns a fresh archive file
BackupStarted == bpc \notin {"idle", "new"} /\ bresult # "initFailed"

C10_ExistingFileUntouched ==
  [][(bpc = "new" /\ fileExists) =>
       /\ bpc' = "exit" /\ bresult' = "initFailed"
       /\ fileExists' /\ backupFile' = backupFile
       /\ bufferedWriter' = NewBufferedWriter]_vars

C10_Witness ==
  /\ bpc = "exit" /\ bresult = "initFailed" /\ berr = "exists"
  /\ fileExists /\ backupFile = OldContent


\* position of a member name in the order of the Backup* calls
StepNo(fname) == CHOOSE i \in 1..Len(CanonicalOrder) : CanonicalOrder[i] = fname

\* C11: once a backup step has failed the run stays failed, the only thing
\* that still runs is the deferred Close, and the archive never holds a
\* member of a collection after the one whose step failed.
C11_FailedStepEndsBackup ==
  [][/\ bresult = "failed" => (bresult' = "failed" /\ bpc' = "exit")
     /\ bresult' = "failed" =>
          /\ bpc' \in {"close", "exit"}
          /\ IsPrefix(NamesOf(ArchiveStream'),
                      SubSeq(CanonicalOrder, 1, StepNo(gzipWriter'.Name)))]_vars

C11_Witness ==
  /\ bpc = "exit" /\ bresult = "failed" /\ berr = "fetch"
  /\ gzipWriter.Name = KafkaTopicsFilename
  /\ Len(NamesOf(backupFile)) >= 3

\* C12: after a backup run that a failing step aborted, no file is left at
\* the output path.
C12_AbortedBackupLeavesNoFile ==
  (bpc = "exit" /\ bresult = "failed") => ~fileExists

\* C13: a backup run that reports success has every member, with its
\* trailer, in the file, and nothing left in the buffer.
C13_SuccessMeansFlushed ==
  (bpc = "exit" /\ bresult = "ok") =>
    /\ NamesOf(backupFile) = CanonicalOrder
    /\ Len(backupFile) = 3 * Len(CanonicalOrder)
    /\ backupFile[Len(backupFile)].t = "trl"
    /\ bufferedWriter.buf = <<>>
    /\ ~bufferedWriter.err

\* the member is not one the skip flags of the command line name
NotSkipped(fname) ==
  /\ ~(cfg.skipCaSecrets /\ fname = CaSecretsFilename)
  /\ ~(cfg.skipUserSecrets /\ fname = KafkaUserSecretsFilename)

\* C16: a backup run with --skip-ca-secrets or --skip-user-secrets that no
\* failure of the environment ended has written the members of the canonical
\* order without the skipped ones, in that order.
C16_SkippedSecretsNotArchived ==
  (/\ bpc = "exit"
   /\ cfg.skipCaSecrets \/ cfg.skipUserSecrets
   /\ berr \in {"none", "unknownFlag"}) =>
    NamesOf(ArchiveStream) = SelectSeq(CanonicalOrder, NotSkipped)

\* the resources serialised into the archive so far
WrittenResources ==
  UNION {{ArchiveStream[i].data[j] : j \in 1..Len(ArchiveStream[i].data)} :
           i \in {k \in 1..Len(ArchiveStream) : ArchiveStream[k].t = "dat"}}

\* C19: without --skip-metadata-cleansing every resource in the archive is
\* cleansed; with it every resource has its metadata as it was fetched.
C19_CleansingUnlessSkipped ==
  BackupStarted =>
    \A r \in WrittenResources :
      IF cfg.skipMetadataCleansing
      THEN r.managedFields /\ r.lastApplied # "absent"
      ELSE r = CleanseMetadata(r)

\* ------------------------------------------------------------------------
\* Properties of a restore of a backup
\* ------------------------------------------------------------------------
\* the archive is one a backup run writes
IsBackupArchive == NamesOf(backupFile) = CanonicalOrder

\* the resources of the archive, member after member
ArchivedResources ==
  UNION {{backupFile[i].data[j] : j \in 1..Len(backupFile[i].data)} :
           i \in {k \in 1..Len(backupFile) : backupFile[k].t = "dat"}}

\* the Kafka resource of the archive
ArchivedPrimary ==
  CHOOSE r \in ArchivedResources : r.kind = "Kafka"

\* the run created the Kafka resource, so the target held none
PrimaryCreatedByRun == \E i \in HistIdx : IsPausedKafkaCreated(hist[i])

\* C14: once the restore of a backup into an empty target has completed, the
\* restored resources equal the archived ones up to the rewrite of namespace,
\* name and cluster label and the cleansing of managed fields, owner
\* references and the last-applied annotation; the pause annotation of the
\* Kafka resource is as it was archived.
C14_RoundTripEqual ==
  (outcome = "Completed" /\ IsBackupArchive /\ PrimaryCreatedByRun) =>
    /\ srvKafka.pause = ArchivedPrimary.pause
    /\ {hist[i].obj : i \in {k \in HistIdx : IsDependentCreate(hist[k])}}
         = {updateNamespaceAndClusterName(CleanseMetadata(r)) :
              r \in {x \in ArchivedResources : x.kind # "Kafka"}}

\* C17: with --skip-ca-secrets (--skip-user-secrets) no Secret of the member
\* ca-secrets.yaml (user-secrets.yaml) is created.
C17_SkippedSecretsNotRestored ==
  \A i \in HistIdx :
    (hist[i].op = "create" /\ hist[i].kind = "Secret") =>
      NotSkipped(hist[i].obj.name[1])

\* C18: with --skip-cluster-id no status update setting the cluster ID is
\* issued.
C18_SkippedClusterIdNotRestored ==
  cfg.skipClusterId => \A i \in HistIdx : hist[i].op # "updateStatus"

\* the run ended on an error or a panic
RestoreAborted == outcome \in {"Aborted", "Crashed"}

\* the server accepted the Update that unpauses the Kafka resource
UnpauseAccepted == \E i \in UnpauseUpdates : hist[i].ok

\* the resources the run created are on the server
CreatedInPlace ==
  \A i \in HistIdx :
    (hist[i].op = "create" /\ hist[i].ok) =>
      IF hist[i].kind = "Kafka" THEN srvKafka.exists
      ELSE <<hist[i].obj.kind, hist[i].obj.name>> \in srvItems

\* after the abort the restorer issues no call: nothing is added to the
\* history of calls, and what it created is neither removed nor changed
NoCallAfterAbort ==
  RestoreAborted =>
    /\ hist' = hist
    /\ srvItems' = srvItems
    /\ srvKafka'.exists = srvKafka.exists
    /\ srvKafka'.pause = srvKafka.pause
    /\ srvKafka'.clusterId = srvKafka.clusterId

\* C20 as stated: when a restore has aborted, the resources it created are in
\* place, no call follows the failing step, and a Kafka resource the run
\* created is paused.
C20_AbortLeavesPrimaryPaused ==
  [][/\ NoCallAfterAbort
     /\ outcome' = "Aborted" =>
          /\ CreatedInPlace'
          /\ PrimaryCreatedByRun' => srvKafka'.pause = "true"]_vars

\* C20 amended: when a restore has aborted, the resources it created are in
\* place, no call follows the failing step, and a Kafka resource the run
\* created is paused unless the server had accepted the unpausing Update
\* before the failing step (the ready wait), in which case it stays unpaused.
C20_AbortLeavesCreatedUntouched ==
  [][/\ NoCallAfterAbort
     /\ RestoreAborted' =>
          /\ CreatedInPlace'
          /\ PrimaryCreatedByRun' =>
               srvKafka'.pause = IF UnpauseAccepted' THEN "false"
                                 ELSE "true"]_vars

C20_Witness ==
  /\ outcome = "Aborted" /\ rerr = "create"
  /\ PrimaryCreatedByRun
  /\ \E i \in HistIdx : IsDependentCreate(hist[i]) /\ hist[i].ok
  /\ srvKafka.pause = "true"

\* kafka.Status != nil && kafka.Status.ClusterId != "": the model writes ""
\* for an absent status and for an empty cluster ID alike
HasClusterId(k) == k.clusterId # ""

\* C21: when the archived Kafka resource has no status or an empty cluster
\* ID, restoreKafka, once the paused condition was seen, returns success
\* without a status update: the step that ends it only records the return and
\* leaves the resource on the server as it is.
C21_NoClusterIdStillSucceeds ==
  [][(rpc = "clusterId" /\ ~HasClusterId(kafka) /\ rpc' # rpc) =>
       /\ IsPausedSeen(hist[Len(hist)])
       /\ rpc' = "reset" /\ outcome' = "running"
       /\ hist' = Append(hist, Entry("return", "restoreKafka", TRUE, kafka,
                                     NoKafka))
       /\ srvKafka' = srvKafka]_vars

C21_Witness ==
  /\ outcome = "Completed"
  /\ \E i \in HistIdx :
       IsPrimaryRestored(hist[i]) /\ ~HasClusterId(hist[i].obj)
  /\ \A i \in HistIdx : hist[i].op # "updateStatus"

\* the Get of unpauseKafkaClusterAndWaitForReadiness returned a resource that
\* is not paused
FetchedUnpaused(e) ==
  e.op = "get" /\ e.ok /\ ~IsReconciliationPaused(e.srv)

\* C22: when the Kafka resource fetched at the end of the run is not paused,
\* no Update follows.  If it is ready the run completes in the same step,
\* without opening a watch; otherwise the run goes on to the ready wait, and
\* the only watch it opens from then on evaluates the ready predicate.
C22_UnpausedPrimaryNotUpdated ==
  [][/\ (rpc = "unpause" /\ rpc' # rpc /\ outcome' # "Aborted"
         /\ ~IsReconciliationPaused(srvKafka)) =>
          /\ ~watch'.open
          /\ IF IsReady(srvKafka)
             THEN outcome' = "Completed" /\ rpc' = "exit"
             ELSE outcome' = "running" /\ rpc' = "waitReady"
     /\ (\E i \in HistIdx : FetchedUnpaused(hist[i])) =>
          /\ rpc' \in {"waitReady", "exit"}
          /\ watch'.open => watch'.pred = "ready"
          /\ \A j \in 1..Len(hist') : hist'[j].op # "update"]_vars

C22_Witness ==
  /\ outcome = "Completed"
  /\ \E i \in HistIdx :
       /\ FetchedUnpaused(hist[i]) /\ ~IsReady(hist[i].srv)
       /\ \E j \in (i + 1)..Len(hist) :
            hist[j].op = "waitOk" /\ hist[j].kind = "ready"

\* the step ends a wait with success
WaitSucceeds ==
  \/ rpc = "waitPaused" /\ rpc' = "clusterId"
  \/ rpc = "waitReady" /\ outcome' = "Completed"

\* the step receives an event and goes on waiting
EventPassedOver ==
  /\ watch.open /\ watch'.open
  /\ watch.events # <<>>
  /\ watch'.events = Tail(watch.events)

\* C23: a wait returns success only on receiving an event whose resource
\* satisfies its predicate, and every event it received before and went on
\* waiting did not satisfy it; the events still queued are not received.
C23_SuccessOnFirstSatisfyingEvent ==
  [][/\ WaitSucceeds =>
          /\ watch.open /\ watch.events # <<>>
          /\ Satisfies(watch.pred, Head(watch.events))
          /\ hist' = Append(hist, Entry("waitOk", watch.pred, TRUE,
                                        NoResource, Head(watch.events)))
          /\ ~watch'.open
     /\ EventPassedOver => ~Satisfies(watch.pred, Head(watch.events))]_vars

C23_Witness ==
  /\ outcome = "Completed"
  /\ \E i, j \in HistIdx :
       /\ i < j
       /\ hist[i].op = "waitOk" /\ hist[i].kind = "paused"
       /\ IsReconciliationPaused(hist[i].srv)
       /\ hist[j].op = "waitOk" /\ hist[j].kind = "ready"
       /\ IsReady(hist[j].srv)

\* the run is inside a wait
InWait == rpc \in {"waitPaused", "waitReady"}

\* C24: no watch is open outside a wait: whenever a wait has returned, with
\* success, with a timeout or otherwise, its watch is stopped and its context
\* cancelled.
C24_WatchReleasedOnReturn ==
  watch.open => (InWait /\ outcome = "running")

C24_Witness ==
  /\ outcome = "Aborted" /\ rerr = "timeout"
  /\ hist[Len(hist)].op = "waitTimeout"
  /\ \E i \in HistIdx : hist[i].op = "waitOk"
  /\ ~watch.open

\* C25: every wait gets a deadline of the full timeout counted from the
\* moment it opens its watch, whatever time has passed before; the deadline
\* does not move while the wait runs, and the wait times out only once the
\* clock has reached it.
C25_DeadlinePerWait ==
  [][/\ (~watch.open /\ watch'.open) =>
          /\ watch'.now = watch.now
          /\ watch'.deadline = watch.now + cfg.timeout
          /\ ~watch'.done
     /\ (watch.open /\ watch'.open) => watch'.deadline = watch.deadline
     /\ (watch.open /\ outcome' = "Aborted" /\ rerr' = "timeout") =>
          watch.now >= watch.deadline]_vars

\* the second wait of a run, one tick old and not timed out, although the
\* first wait had used up a tick and the clock shows a full timeout
C25_Witness ==
  /\ cfg.timeout = 2
  /\ watch.open /\ watch.pred = "ready" /\ ~watch.done
  /\ watch.deadline = 3 /\ watch.now = 2
  /\ \E i \in HistIdx : hist[i].op = "waitOk" /\ hist[i].kind = "paused"

\* C26: a wait that timed out ends the run with the timeout error and a
\* rejected request with an error of its own; a watch that could not be
\* opened ends the run with a returned error too, never in another way.
C26_WaitErrorsReturned ==
  /\ \A i \in HistIdx :
       /\ hist[i].op = "waitTimeout" =>
            (outcome = "Aborted" /\ rerr = "timeout")
       /\ (hist[i].op = "watch" /\ ~hist[i].ok) =>
            (outcome = "Aborted" /\ rerr \notin {"none", "timeout"})
  /\ (outcome = "Aborted" /\ rerr = "timeout") =>
       \E i \in HistIdx : hist[i].op = "waitTimeout"

\* ========================================================================
\* Archive round trip: members written one after another, then read back
\* ========================================================================
\* payloads of different sizes
ArchivePayloads == {[i \in 1..n |-> i] : n \in 0..MaxPayload}

ArchiveMembers ==
  [name : {KafkaFilename, KafkaNodePoolsFilename}, payload : ArchivePayloads]

InitArchive ==
  /\ toWrite \in UNION {[1..k -> ArchiveMembers] : k \in 1..MaxWritten}
  /\ written = <<>> /\ readBack = <<>>
  /\ apc = "write"
  /\ fileExists = TRUE /\ backupFile = <<>>
  /\ cfg = NoFlags
  /\ RestoreIdle /\ BackupIdle /\ ExportIdle /\ CleanseIdle

\* the writer's part of a Backup* method: Reset, Name, Write, Close
ArchiveWriteMember ==
  /\ apc = "write"
  /\ toWrite # <<>>
  /\ \E flush \in BOOLEAN :
       LET m == Head(toWrite)
           w0 == [NewGzipWriter EXCEPT !.Name = m.name]
           w1 == [w0 EXCEPT !.wroteHeader = TRUE, !.size = Len(m.payload)]
       IN
       /\ gzipWriter' = [w1 EXCEPT !.closed = TRUE]
       /\ Buffered(GzipWriteOut(w0, m.payload) \o GzipCloseOut(w1), flush)
       /\ written' = Append(written, m)
       /\ toWrite' = Tail(toWrite)
       /\ apc' = IF Tail(toWrite) = <<>> THEN "close" ELSE "write"
  /\ UNCHANGED <<fileExists, cfg, readBack, bpc, bresult, berr, restoreVars,
                 exportVars, cleanseVars>>

\* Backuper.Close after the last member: the buffered writer is flushed
ArchiveClose ==
  /\ apc = "close"
  /\ backupFile' = backupFile \o bufferedWriter.buf \o GzipCloseOut(gzipWriter)
  /\ bufferedWriter' = NewBufferedWriter
  /\ apc' = "open"
  /\ UNCHANGED <<fileExists, cfg, toWrite, written, readBack, bpc, bresult,
                 berr, gzipWriter, restoreVars,
                 exportVars, cleanseVars>>

\* NewRestorer: gzip.NewReader parses the first header
ArchiveOpen ==
  /\ apc = "open"
  /\ LET h == GzipReadHeader(backupFile, 1) IN
     IF h.res = "ok"
     THEN /\ gzipReader' = [pos |-> h.pos, Name |-> h.name,
                            multistream |-> TRUE]
          /\ apc' = "read"
     ELSE /\ apc' = "failed" /\ UNCHANGED gzipReader
  /\ UNCHANGED <<fileVars, cfg, toWrite, written, readBack, backupVars, rpc,
                 outcome, rerr, resources, idx, memberNo, kafka, pausedKafka,
                 fetched, srvKafka, srvItems, watch, hist,
                 exportVars, cleanseVars>>

\* the loop head of RestoreKafka: Multistream(false) and io.ReadAll
ArchiveReadMember ==
  /\ apc = "read"
  /\ LET rd == ReadAllSingleStream(backupFile, gzipReader.pos) IN
     IF rd.ok
     THEN /\ readBack' = Append(readBack, [name |-> gzipReader.Name,
                                           payload |-> rd.data])
          /\ gzipReader' = [gzipReader EXCEPT !.pos = rd.pos,
                                              !.multistream = FALSE]
          /\ apc' = "reset"
     ELSE /\ apc' = "failed" /\ UNCHANGED <<readBack, gzipReader,
                 exportVars, cleanseVars>>
  /\ UNCHANGED <<fileVars, cfg, toWrite, written, backupVars, rpc, outcome,
                 rerr, resources, idx, memberNo, kafka, pausedKafka, fetched,
                 srvKafka, srvItems, watch, hist,
                 exportVars, cleanseVars>>

\* the end of the loop body of RestoreKafka: Reset re-anchors the reader on
\* the next member, or reports io.EOF
ArchiveReset ==
  /\ apc = "reset"
  /\ LET h == GzipReadHeader(backupFile, gzipReader.pos) IN
     CASE h.res = "eof" -> apc' = "done" /\ UNCHANGED gzipReader
       [] h.res = "ok" ->
            /\ apc' = "read"
            /\ gzipReader' = [pos |-> h.pos, Name |-> h.name,
                              multistream |-> TRUE]
       [] OTHER -> apc' = "failed" /\ UNCHANGED gzipReader
  /\ UNCHANGED <<fileVars, cfg, toWrite, written, readBack, backupVars, rpc,
                 outcome, rerr, resources, idx, memberNo, kafka, pausedKafka,
                 fetched, srvKafka, srvItems, watch, hist,
                 exportVars, cleanseVars>>

NextArchive ==
  \/ ArchiveWriteMember
  \/ ArchiveClose
  \/ ArchiveOpen
  \/ ArchiveReadMember
  \/ ArchiveReset

SpecArchive == InitArchive /\ [][NextArchive]_vars

\* C8: members written one after another are read back by the read loop with
\* the same names and payloads in the write order: what has been read is
\* always a prefix of what was written, the read never fails, and the end of
\* the archive is signalled exactly when every member has been read.
C8_ReadBackInWriteOrder ==
  /\ apc # "failed"
  /\ apc \in {"read", "reset", "done"} => IsPrefix(readBack, written)
  /\ apc = "reset" =>
       ((GzipReadHeader(backupFile, gzipReader.pos).res = "eof")
          <=> (Len(readBack) = Len(written)))
  /\ apc = "done" => readBack = written

C8_Witness ==
  /\ apc = "done"
  /\ Len(readBack) >= 2
  /\ Len(readBack[1].payload) # Len(readBack[2].payload)
  /\ readBack[1].name = readBack[2].name

\* ========================================================================
\* Export: every member of the archive unpacked to a file
\* ========================================================================
InitExport ==
  /\ \E ms \in UNION {[1..k -> ArchiveMembers] : k \in 0..MaxWritten} :
        backupFile = EncodeArchive(ms)
  /\ fileExists = TRUE
  /\ cfg = NoFlags
  /\ epc = "new" /\ eresult = "running"
  /\ \E old \in SUBSET {KafkaFilename} :
        exportFiles = [n \in ExportNames |->
                         IF n \in old
                         THEN [exists |-> TRUE, content |-> <<>>,
                               open |-> FALSE]
                         ELSE NoFile]
  /\ RestoreIdle /\ BackupIdle /\ ArchiveIdle /\ CleanseIdle

\* NewExporter: the backup file opened, gzip.NewReader on the first header,
\* MkdirAll of the target directory
NewExporter ==
  /\ epc = "new"
  /\ \E env \in {"ok", "open", "mkdir"} :
       LET h == GzipReadHeader(backupFile, 1) IN
       IF env # "ok" \/ h.res # "ok"
       THEN /\ epc' = "exit" /\ eresult' = "initFailed"
            /\ UNCHANGED gzipReader
       ELSE /\ epc' = "Export"
            /\ gzipReader' = [pos |-> h.pos, Name |-> h.name,
                              multistream |-> TRUE]
            /\ UNCHANGED eresult
  /\ UNCHANGED <<fileVars, cfg, exportFiles, rpc, outcome, rerr, resources,
                 idx, memberNo, kafka, pausedKafka, fetched, srvKafka,
                 srvItems, watch, hist, backupVars, archiveVars, cleanseVars>>

\* One turn of the loop of Export.  The export file is opened with
\* O_CREATE|O_EXCL|O_WRONLY behind a new bufio.Writer and the member is
\* copied into it: n elements of the payload reach the file, the rest stays
\* in the buffer (all of them reach it where the copy is handed to the file).
\* Then Reset: on io.EOF the writer of this turn is flushed and its file
\* closed and Export returns nil; on the next header the loop goes on, the
\* writer and the file of this turn left as they are.
Export ==
  /\ epc = "Export"
  /\ LET name == gzipReader.Name
         rd == ReadAllSingleStream(backupFile, gzipReader.pos)
         h == GzipReadHeader(backupFile, rd.pos)
     IN
     \E fail \in {"none", "open", "copy", "flush", "close"},
        n \in 0..Len(rd.data) :
       LET opened == [exists |-> TRUE, content |-> <<>>, open |-> TRUE]
           copied == [opened EXCEPT !.content = SubSeq(rd.data, 1, n)]
           flushed == [opened EXCEPT !.content = rd.data]
       IN
       CASE fail = "open" \/ exportFiles[name].exists ->
              /\ epc' = "exit" /\ eresult' = "failed"
              /\ UNCHANGED <<exportFiles, gzipReader>>
         [] fail = "copy" \/ ~rd.ok ->
              /\ epc' = "exit" /\ eresult' = "failed"
              /\ exportFiles' = [exportFiles EXCEPT ![name] = opened]
              /\ UNCHANGED gzipReader
         [] h.res = "eof" ->
              /\ epc' = "exit"
              /\ eresult' = IF fail = "none" THEN "ok" ELSE "failed"
              /\ exportFiles' =
                   [exportFiles EXCEPT ![name] =
                      IF fail = "flush" THEN copied
                      ELSE IF fail = "close" THEN flushed
                      ELSE [flushed EXCEPT !.open = FALSE]]
              /\ gzipReader' = [gzipReader EXCEPT !.pos = rd.pos,
                                                  !.multistream = FALSE]
         [] h.res = "ok" ->
              /\ epc' = "Export"
              /\ exportFiles' = [exportFiles EXCEPT ![name] = copied]
              /\ gzipReader' = [pos |-> h.pos, Name |-> h.name,
                                multistream |-> TRUE]
              /\ UNCHANGED eresult
         [] OTHER ->
              /\ epc' = "exit" /\ eresult' = "failed"
              /\ exportFiles' = [exportFiles EXCEPT ![name] = copied]
              /\ UNCHANGED gzipReader
  /\ UNCHANGED <<fileVars, cfg, rpc, outcome, rerr, resources, idx, memberNo,
                 kafka, pausedKafka, fetched, srvKafka, srvItems, watch,
                 hist, backupVars, archiveVars, cleanseVars>>

NextExport ==
  \/ NewExporter
  \/ Export

SpecExport == InitExport /\ [][NextExport]_vars

\* C15: when Export has returned success, every member of the archive has a
\* file of its name in the target directory that holds exactly the member's
\* payload and is closed.
C15_ExportedFilesComplete ==
  (epc = "exit" /\ eresult = "ok") =>
    \A i \in MemberHeaders(backupFile) :
      LET f == exportFiles[backupFile[i].name] IN
      /\ f.exists
      /\ f.content = backupFile[i + 1].data
      /\ ~f.open


\* ========================================================================
\* Metadata cleansing on its own
\* ========================================================================
\* the metadata a fetched resource can carry
MetadataOf(la, mf, ow, note, pause, cluster) ==
  [Resource("KafkaTopic", <<KafkaTopicsFilename, 1>>, pause, "")
     EXCEPT !.lastApplied = la, !.managedFields = mf,
            !.ownerReferences = ow, !.note = note, !.cluster = cluster]

Metadatas ==
  {MetadataOf(la, mf, ow, note, pause, cluster) :
     la \in {"absent", "", "cfg"}, mf \in BOOLEAN, ow \in BOOLEAN,
     note \in {"absent", "n"}, pause \in {"absent", "true"},
     cluster \in {"none", SourceName}}

InitCleanse ==
  /\ backupFile = <<>> /\ fileExists = FALSE
  /\ cfg = NoFlags
  /\ original \in Metadatas
  /\ metadata = original
  /\ applied = 0
  /\ RestoreIdle /\ BackupIdle /\ ArchiveIdle /\ ExportIdle

\* one call of cleanseMetadata on the resource
cleanseMetadata ==
  /\ applied < MaxApplied
  /\ metadata' = CleanseMetadata(metadata)
  /\ applied' = applied + 1
  /\ UNCHANGED <<fileVars, cfg, restoreVars, backupVars, archiveVars,
                 exportVars, original>>

NextCleanse == cleanseMetadata

SpecCleanse == InitCleanse /\ [][NextCleanse]_vars

\* C27: once cleansed, the metadata has no managed fields, no owner
\* references and no last-applied-configuration annotation, and cleansing it
\* again changes nothing.
C27_CleansingRemovesAndIsIdempotent ==
  applied >= 1 =>
    /\ ~metadata.managedFields
    /\ ~metadata.ownerReferences
    /\ metadata.lastApplied = "absent"
    /\ CleanseMetadata(metadata) = metadata

VariedKafka(name, ns, pause, note) ==
  [ArchivedKafka("abc-123") EXCEPT !.name = <<name, 0>>, !.namespace = ns,
                                   !.pause = pause, !.note = note]

VariedItem(fname, ns, cluster, app) ==
  [ArchivedItem(fname, 1) EXCEPT !.namespace = ns, !.cluster = cluster,
                                 !.app = app]

VariedArchive(name, ns, pause, note, cluster, app) ==
  EncodeArchive([i \in 1..Len(CanonicalOrder) |->
    [name |-> CanonicalOrder[i],
     payload |-> IF CanonicalOrder[i] = KafkaFilename
                 THEN <<VariedKafka(name, ns, pause, note)>>
                 ELSE <<VariedItem(CanonicalOrder[i], ns, cluster, app)>>]])

InitVaried ==
  /\ \E name \in {SourceName, TargetName},
        ns \in {SourceNamespace, TargetNamespace},
        pause \in {"absent", "true", "false"},
        note \in {"absent", "n"},
        cluster \in {"none", SourceName, TargetName},
        app \in {"absent", "a"} :
        backupFile = VariedArchive(name, ns, pause, note, cluster, app)
  /\ fileExists = TRUE
  /\ cfg = NoFlags
  /\ rpc = "new" /\ outcome = "running" /\ rerr = "none"
  /\ gzipReader = [pos |-> 1, Name |-> "", multistream |-> TRUE]
  /\ resources = <<>> /\ idx = 1 /\ memberNo = 0
  /\ kafka = NoResource /\ pausedKafka = NoKafka /\ fetched = NoKafka
  /\ srvKafka = NoKafka
  /\ srvItems = {} /\ watch = NoWatch /\ hist = <<>>
  /\ BackupIdle /\ ArchiveIdle /\ ExportIdle /\ CleanseIdle

SpecVaried == InitVaried /\ [][Next]_vars

\* the archived resource an object handed to Create was made from
ArchivedAs(obj) ==
  {r \in ArchivedResources : r.kind = obj.kind /\ r.name = obj.name}

\* C29: every node pool, topic, user and secret handed to Create has the
\* target namespace, the strimzi.io/cluster label of the target cluster and
\* the name of a resource of its kind in the archive.
C29_DependentsRetargeted ==
  \A i \in HistIdx :
    IsDependentCreate(hist[i]) =>
      /\ hist[i].obj.namespace = TargetNamespace
      /\ hist[i].obj.cluster = cfg.name
      /\ ArchivedAs(hist[i].obj) # {}

\* a resource archived without any label and in another namespace, created
C29_Witness ==
  \E i \in HistIdx :
    /\ IsDependentCreate(hist[i]) /\ hist[i].ok
    /\ hist[i].obj.cluster = TargetName
    /\ \E r \in ArchivedAs(hist[i].obj) :
         /\ r.cluster = "none" /\ r.app = "absent"
         /\ r.namespace = SourceNamespace

\* the Kafka resource was handed to Create
IsKafkaCreate(e) == e.op = "create" /\ e.kind = "Kafka"

\* C30 as stated: the Kafka resource handed to Create has the target
\* namespace and name and the pause annotation "true", and every other
\* annotation as archived.
C30_PrimaryPausedAllAnnotationsKept ==
  \A i \in HistIdx :
    IsKafkaCreate(hist[i]) =>
      /\ hist[i].obj.namespace = TargetNamespace
      /\ hist[i].obj.name = <<cfg.name, 0>>
      /\ hist[i].obj.pause = "true"
      /\ hist[i].obj.note = ArchivedPrimary.note
      /\ hist[i].obj.lastApplied = ArchivedPrimary.lastApplied

\* C30, amended: the Kafka resource handed to Create has the target
\* namespace and name and the pause annotation "true"; its annotations other
\* than the pause and the last-applied-configuration annotation are as
\* archived.
C30_PrimaryPausedAnnotationsKept ==
  \A i \in HistIdx :
    IsKafkaCreate(hist[i]) =>
      /\ hist[i].obj.namespace = TargetNamespace
      /\ hist[i].obj.name = <<cfg.name, 0>>
      /\ hist[i].obj.pause = "true"
      /\ hist[i].obj.note = ArchivedPrimary.note

\* a Kafka archived under another name and namespace, with the pause
\* annotation "false" and another annotation, created
C30_Witness ==
  \E i \in HistIdx :
    /\ IsKafkaCreate(hist[i]) /\ hist[i].ok
    /\ hist[i].obj.pause = "true" /\ hist[i].obj.note = "n"
    /\ ArchivedPrimary.pause = "false"
    /\ ArchivedPrimary.name = <<SourceName, 0>>
    /\ ArchivedPrimary.namespace = SourceNamespace


\* ========================================================================
\* A run of either command: a backup or a restore
\* ========================================================================
InitEither == InitTimed \/ InitBackup

NextEither == Next \/ NextBackup

SpecEither == InitEither /\ [][NextEither]_vars

\* C31: a constructor called without a name fails with the error about the
\* name and leaves the archive file, the reader or writer on it and the
\* cluster as they were; the failure of a client or of the file, which only
\* an attempt to build or open it can bring out, is never what it reports.
C31_NoNameFailsBeforeIO ==
  [][/\ (rpc = "new" /\ rpc' # "new" /\ cfg'.name = "") =>
          /\ outcome' = "InitFailed" /\ rerr' = "name"
          /\ UNCHANGED <<fileVars, gzipReader, srvKafka, srvItems, watch,
                         hist>>
     /\ (bpc = "new" /\ bpc' # "new" /\ cfg'.name = "") =>
          /\ bresult' = "initFailed" /\ berr' \in {"name", "unknownFlag"}
          /\ UNCHANGED <<fileVars, gzipWriter, bufferedWriter>>]_vars

\* a backup run without a name has ended and there is no file
C31_Witness ==
  /\ bpc = "exit" /\ bresult = "initFailed" /\ berr = "name"
  /\ cfg.name = "" /\ ~fileExists


\* ========================================================================
\* Properties of a restore, continued
\* ========================================================================
\* C32: whatever the order of the members in the archive, every create of a
\* node pool, topic, user or secret comes after the Kafka resource was
\* created paused and after a watch event showed it paused.
C32_DependentsAfterPausedPrimaryAnyOrder ==
  \A i \in HistIdx :
    IsDependentCreate(hist[i]) =>
      \E j \in 1..(i - 1), k \in 1..(i - 1) :
        /\ j < k
        /\ IsPausedKafkaCreated(hist[j])
        /\ IsPausedSeen(hist[k])


\* ------------------------------------------------------------------------
\* Properties of a backup run, continued
\* ------------------------------------------------------------------------
\* f is a sequence of complete members: a header, the payload, and a trailer
\* with the size of the payload
CompleteMembers(f) ==
  /\ Len(f) % 3 = 0
  /\ \A i \in 1..Len(f) :
       CASE i % 3 = 1 -> f[i].t = "hdr"
         [] i % 3 = 2 -> f[i].t = "dat"
         [] OTHER -> f[i].t = "trl" /\ f[i].n = Len(f[i - 1].data)

\* C33: when a backup run that had opened its file has ended, with success
\* or after a failed step, the file is a sequence of complete members, each
\* one the output of a step: no member without payload and no member cut
\* short.
C33_OnlyCompleteMembers ==
  (bpc = "exit" /\ bresult \in {"ok", "failed"}) =>
    /\ CompleteMembers(backupFile)
    /\ \A i \in 1..Len(backupFile) :
         backupFile[i].t = "hdr" =>
           backupFile[i].name = CanonicalOrder[(i + 2) \div 3]


\* the resource on the server satisfies the predicate of the wait in progress
AwaitedHolds ==
  /\ srvKafka.exists
  /\ Satisfies(IF rpc = "waitPaused" THEN "paused" ELSE "ready", srvKafka)

\* C34: a wait that has its watch and ends while the resource on the server
\* has the awaited condition and the deadline is not reached ends with
\* success, whether the condition was set before or after the watch was
\* opened.
C34_NoLostWakeUp ==
  [][(InWait /\ watch.open /\ rpc' # rpc /\ AwaitedHolds /\ ~watch.done) =>
        WaitSucceeds]_vars


\* C35: a wait that ends on an event channel that was closed and has no
\* event left ends with an error returned to the run: it does not crash and
\* does not report success.
C35_ClosedChannelGivesError ==
  [][(InWait /\ watch.open /\ watch.closed /\ watch.events = <<>>
        /\ rpc' # rpc) =>
        (outcome' = "Aborted" /\ rerr' # "none")]_vars


\* C36: every resource handed to Create carries no resource version and no
\* UID.
C36_CreatedWithoutSourceIdentity ==
  \A i \in HistIdx :
    hist[i].op = "create" =>
      /\ hist[i].obj.resourceVersion = ""
      /\ hist[i].obj.uid = ""


\* C37: a run that returned success created the Kafka resource itself, from
\* a kafka.yaml member of the archive.
C37_SuccessCreatedPrimary ==
  outcome = "Completed" =>
    /\ PrimaryCreatedByRun
    /\ KafkaFilename \in {backupFile[i].name : i \in MemberHeaders(backupFile)}


\* the re-fetched Kafka resource has ReconciliationPaused and is ready too
FetchedPausedAndReady(e) ==
  e.op = "get" /\ e.ok /\ IsReconciliationPaused(e.srv) /\ IsReady(e.srv)

\* C38: a re-fetched Kafka resource that is both paused and ready is treated
\* as paused: the next call is the unpause update, an accepted update is
\* followed by the watch of the ready wait, and the run completes only
\* through that wait.
C38_PausedAndReadyIsUnpaused ==
  \A i \in HistIdx :
    FetchedPausedAndReady(hist[i]) =>
      IF i = Len(hist)
      THEN rpc = "unpauseUpdate" /\ outcome = "running"
      ELSE /\ hist[i + 1].op = "update"
           /\ hist[i + 1].ok =>
                IF i + 1 = Len(hist)
                THEN rpc = "waitReady" /\ outcome = "running"
                ELSE hist[i + 2].op = "watch" /\ hist[i + 2].kind = "ready"
           /\ outcome = "Completed" =>
                \E j \in (i + 2)..Len(hist) :
                  hist[j].op = "waitOk" /\ hist[j].kind = "ready"

C38_Witness ==
  /\ outcome = "Completed"
  /\ \E i \in HistIdx :
       /\ FetchedPausedAndReady(hist[i])
       /\ i + 1 <= Len(hist)
       /\ hist[i + 1].op = "update" /\ hist[i + 1].ok


\* the members the dispatch loop has handed to a handler, in call order
HandledMembers == {i \in HistIdx : hist[i].op = "handler"}

\* C39: a restore run that has ended has ended Completed or Aborted (or
\* never started, the constructor having failed); no member is dispatched
\* twice, and no wait is still running after its deadline.
C39_EndsCompletedOrAborted ==
  /\ rpc = "exit" => outcome \in {"Completed", "Aborted", "InitFailed"}
  /\ \A i, j \in HandledMembers : i < j => hist[i].m < hist[j].m
  /\ watch.open => watch.now <= watch.deadline

====
